---- MODULE Spec2Model ----
(***************************************************************************)
(* Water tracker: the daily-stats and streak engine.                       *)
(*                                                                         *)
(* Two variants of the engine live in the repository and never share a     *)
(* database (their schemas differ):                                        *)
(*   "app" : src/app.py, HTTP handlers api_state / api_add / api_undo /    *)
(*           api_profile over the tables users, entries, daily_stats,      *)
(*           with the full-history recompute_streaks;                      *)
(*   "db"  : src/db.py, class Database over users, water_log,              *)
(*           daily_stats, with the incremental update_streak.              *)
(*                                                                         *)
(* Calendar dates are day ordinals (ISO strings of four-digit years order  *)
(* and subtract exactly as the ordinals do).  Every handler runs to        *)
(* completion as one step, one request at a time, except in SpecConcurrent *)
(* (two workers, one step per SQL statement) and SpecAbort (a request may  *)
(* end between two commits).                                               *)
(***************************************************************************)
EXTENDS Integers, Sequences, FiniteSets, TLC

VARIABLES
    variant,      \* which program runs: "app" (src/app.py) or "db" (src/db.py)
    client,       \* the amount and drink type the client's add button sends
    users,        \* app.py table users: telegram_id -> profile row
    entries,      \* app.py table entries: id -> ledger row
    lastId,       \* app.py AUTOINCREMENT counter of entries
    daily_stats,  \* app.py table daily_stats: <<telegram_id, date>> -> row
    resp,         \* app.py: the last request's response and streak scan
    dbUsers,      \* db.py table users: tg_id -> profile row
    water_log,    \* db.py table water_log: id -> ledger row
    dbLastId,     \* db.py AUTOINCREMENT counter of water_log
    dbDaily,      \* db.py table daily_stats: <<tg_id, local_date>> -> row
    now,          \* db.py: datetime.utcnow(), in minutes
    prior,        \* history: the daily_stats row of the last add's day as it
                  \* was before that add request (SpecRoundTrip)
    inflight,     \* the requests in flight: per worker, the position in its
                  \* handler and the handler's local variables
                  \* (SpecConcurrent, SpecAbort)
    shown,        \* history: per user, the achievements that some state
                  \* snapshot has shown unlocked (SpecAchievements)
    advanced      \* history: the <<tg_id, local_date>> of the update_streak
                  \* calls that raised current_streak (SpecIncremental)

appVars == <<users, entries, lastId, daily_stats>>
dbVars == <<dbUsers, water_log, dbLastId, dbDaily, now>>
vars == <<variant, client, users, entries, lastId, daily_stats, resp,
          dbUsers, water_log, dbLastId, dbDaily, now, prior, inflight, shown,
          advanced>>

----------------------------------------------------------------------------
(* Bounds of the model *)

MaxDay == 2
MaxEntries == 2
MaxWeek == 7
MaxClockDays == 1
MaxEndToEndDay == 3

Days == 1..MaxDay

----------------------------------------------------------------------------
(* Small helpers *)

Max(a, b) == IF a >= b THEN a ELSE b
Min(a, b) == IF a <= b THEN a ELSE b

RECURSIVE SumOver(_, _)
SumOver(f, S) ==
    IF S = {} THEN 0
    ELSE LET x == CHOOSE y \in S : TRUE
         IN f[x] + SumOver(f, S \ {x})

\* Python's round() on the exact quotient num/den: nearest integer, ties to even
PyRound(num, den) ==
    LET q == num \div den
        r == num % den
    IN  IF 2 * r < den THEN q
        ELSE IF 2 * r > den THEN q + 1
        ELSE IF q % 2 = 0 THEN q ELSE q + 1

\* the dates of a set, ascending
RECURSIVE SortAsc(_)
SortAsc(S) ==
    IF S = {} THEN <<>>
    ELSE LET m == CHOOSE x \in S : \A y \in S : x <= y
         IN <<m>> \o SortAsc(S \ {m})

Reverse(s) == [i \in 1..Len(s) |-> s[Len(s) + 1 - i]]

----------------------------------------------------------------------------
(* src/app.py: business logic *)

\* DRINK_MULTIPLIERS, in tenths (1.0, 0.8, 0.6)
DRINK_MULTIPLIERS == [water |-> 10, tea |-> 8, coffee |-> 6]

NormalizeDrink(drink_type) ==
    IF drink_type \in DOMAIN DRINK_MULTIPLIERS THEN drink_type ELSE "water"

\* faulty version: int(ml * mult), truncation instead of rounding
EffectiveTruncated(ml, drink_type) ==
    (ml * DRINK_MULTIPLIERS[drink_type]) \div 10

\* effective = int(round(ml * mult))
Effective(ml, drink_type) == PyRound(ml * DRINK_MULTIPLIERS[drink_type], 10)

ValidMl(ml) == ~(ml <= 0 \/ ml > 5000)

calc_goal(weight_kg, factor_ml) ==
    IF weight_kg <= 0 THEN 0
    ELSE weight_kg * Max(30, Min(35, factor_ml))

\* get_user_identity over the verified initData: 401 unless a non-zero user id
Authenticated(init) == init.valid /\ init.id # 0

NewUser(names) ==
    [names |-> names, weight_kg |-> 0, factor_ml |-> 33, goal_ml |-> 0,
     best_streak |-> 0, current_streak |-> 0]

\* faulty version: INSERT OR REPLACE, an existing row is replaced by a new one
ensure_user_replacing(us, tg_id, names) ==
    [x \in DOMAIN us \cup {tg_id} |->
        IF x = tg_id THEN NewUser(names) ELSE us[x]]

\* ensure_user: the users table after the call
ensure_user(us, tg_id, names) ==
    IF tg_id \in DOMAIN us
    THEN [us EXCEPT ![tg_id].names = names]
    ELSE [x \in DOMAIN us \cup {tg_id} |->
            IF x = tg_id THEN NewUser(names) ELSE us[x]]

\* faulty version: the SUM has no telegram_id filter
DayTotalAllUsers(es, tg_id, day) ==
    LET ids == {i \in DOMAIN es : es[i].date = day}
    IN SumOver([i \in ids |-> es[i].effective_ml], ids)

\* SELECT COALESCE(SUM(effective_ml),0) FROM entries WHERE telegram_id=? AND date=?
DayTotal(es, tg_id, day) ==
    LET ids == {i \in DOMAIN es : es[i].telegram_id = tg_id /\ es[i].date = day}
    IN SumOver([i \in ids |-> es[i].effective_ml], ids)

MetGoal(goal_ml, total) == IF goal_ml > 0 /\ total >= goal_ml THEN 1 ELSE 0

\* faulty version: INSERT OR IGNORE, an existing row is left as it is
upsert_insert_or_ignore(ds, es, tg_id, day, goal_ml) ==
    LET total == DayTotal(es, tg_id, day)
        row == [total_ml |-> total, goal_ml |-> goal_ml,
                met_goal |-> MetGoal(goal_ml, total)]
        key == <<tg_id, day>>
    IN IF key \in DOMAIN ds THEN ds
       ELSE [k \in DOMAIN ds \cup {key} |-> IF k = key THEN row ELSE ds[k]]

\* faulty version: ON CONFLICT updates goal_ml and met_goal but not total_ml
upsert_keep_total(ds, es, tg_id, day, goal_ml) ==
    LET key == <<tg_id, day>>
        total == IF key \in DOMAIN ds THEN ds[key].total_ml
                 ELSE DayTotal(es, tg_id, day)
        row == [total_ml |-> total, goal_ml |-> goal_ml,
                met_goal |-> MetGoal(goal_ml, total)]
    IN [k \in DOMAIN ds \cup {key} |-> IF k = key THEN row ELSE ds[k]]

\* upsert_daily_stats: the daily_stats table after the call
upsert_daily_stats(ds, es, tg_id, day, goal_ml) ==
    LET total == DayTotal(es, tg_id, day)
        row == [total_ml |-> total, goal_ml |-> goal_ml,
                met_goal |-> MetGoal(goal_ml, total)]
        key == <<tg_id, day>>
    IN [k \in DOMAIN ds \cup {key} |-> IF k = key THEN row ELSE ds[k]]

\* the user's rows of daily_stats, as the dates that have one
RowDates(ds, tg_id) == {k[2] : k \in {x \in DOMAIN ds : x[1] = tg_id}}

\* recompute_streaks, best streak: one pass over the rows ORDER BY date ASC
RECURSIVE BestScan(_, _, _, _, _, _)
BestScan(ds, tg_id, rows, i, run, best) ==
    IF i > Len(rows) THEN best
    ELSE IF ds[<<tg_id, rows[i]>>].met_goal = 1
         THEN BestScan(ds, tg_id, rows, i + 1, run + 1, Max(best, run + 1))
         ELSE BestScan(ds, tg_id, rows, i + 1, 0, best)

\* faulty version: an unmet row is stepped over (continue) instead of ending the walk
RECURSIVE CurrentScanStepsOverUnmet(_, _, _, _, _, _)
CurrentScanStepsOverUnmet(ds, tg_id, rows_desc, i, expected, current) ==
    IF i > Len(rows_desc) THEN current
    ELSE IF rows_desc[i] # expected THEN current
    ELSE IF ds[<<tg_id, rows_desc[i]>>].met_goal = 1
         THEN CurrentScanStepsOverUnmet(ds, tg_id, rows_desc, i + 1,
                                        expected - 1, current + 1)
         ELSE CurrentScanStepsOverUnmet(ds, tg_id, rows_desc, i + 1,
                                        expected - 1, current)

\* recompute_streaks, current streak: the rows ORDER BY date DESC against the
\* expected date, which starts at today and steps back one day per met row
RECURSIVE CurrentScan(_, _, _, _, _, _)
CurrentScan(ds, tg_id, rows_desc, i, expected, current) ==
    IF i > Len(rows_desc) THEN current
    ELSE IF rows_desc[i] # expected THEN current
    ELSE IF ds[<<tg_id, rows_desc[i]>>].met_goal = 1
         THEN CurrentScan(ds, tg_id, rows_desc, i + 1, expected - 1, current + 1)
         ELSE current

ScanBest(ds, tg_id) ==
    BestScan(ds, tg_id, SortAsc(RowDates(ds, tg_id)), 1, 0, 0)

ScanCurrent(ds, tg_id, today) ==
    CurrentScan(ds, tg_id, Reverse(SortAsc(RowDates(ds, tg_id))), 1, today, 0)

\* faulty version: best_streak=? instead of best_streak=MAX(best_streak, ?)
recompute_streaks_overwrite_best(us, ds, tg_id, today) ==
    IF RowDates(ds, tg_id) = {}
    THEN [us EXCEPT ![tg_id].current_streak = 0, ![tg_id].best_streak = 0]
    ELSE [us EXCEPT ![tg_id].current_streak = ScanCurrent(ds, tg_id, today),
                    ![tg_id].best_streak = ScanBest(ds, tg_id)]

\* faulty version: the UPDATE sets current_streak only
recompute_streaks_stale_best(us, ds, tg_id, today) ==
    IF RowDates(ds, tg_id) = {}
    THEN [us EXCEPT ![tg_id].current_streak = 0, ![tg_id].best_streak = 0]
    ELSE [us EXCEPT ![tg_id].current_streak = ScanCurrent(ds, tg_id, today)]

\* faulty version: the UPDATE has no WHERE telegram_id=?
recompute_streaks_every_user(us, ds, tg_id, today) ==
    LET cur == IF RowDates(ds, tg_id) = {} THEN 0
               ELSE ScanCurrent(ds, tg_id, today)
        best == IF RowDates(ds, tg_id) = {} THEN 0
                ELSE Max(us[tg_id].best_streak, ScanBest(ds, tg_id))
    IN [x \in DOMAIN us |->
          [us[x] EXCEPT !.current_streak = cur, !.best_streak = best]]

\* recompute_streaks: the users table after the call
recompute_streaks(us, ds, tg_id, today) ==
    IF RowDates(ds, tg_id) = {}
    THEN [us EXCEPT ![tg_id].current_streak = 0, ![tg_id].best_streak = 0]
    ELSE [us EXCEPT ![tg_id].current_streak = ScanCurrent(ds, tg_id, today),
                    ![tg_id].best_streak =
                        Max(us[tg_id].best_streak, ScanBest(ds, tg_id))]

\* get_today_entries: the rows of the user and day, ORDER BY ts DESC, id DESC.
\* Every request of the model carries the same client_ts, so the order is
\* that of the ids, descending.
get_today_entries(es, tg_id, day) ==
    LET ids == {i \in DOMAIN es : es[i].telegram_id = tg_id /\ es[i].date = day}
        desc == Reverse(SortAsc(ids))
    IN [n \in 1..Len(desc) |->
          [id |-> desc[n], ts |-> es[desc[n]].ts,
           drink_type |-> es[desc[n]].drink_type,
           raw_ml |-> es[desc[n]].raw_ml,
           effective_ml |-> es[desc[n]].effective_ml]]

\* get_last_n_days (app.py): the n days ending at end_day, ascending; a day
\* with no row is filled with total 0 and the goal the caller passes
get_last_n_days(ds, tg_id, end_day, n, goal_ml) ==
    [i \in 1..n |->
        LET d == end_day - (n - i)
            has == <<tg_id, d>> \in DOMAIN ds
            total == IF has THEN ds[<<tg_id, d>>].total_ml ELSE 0
            g == IF has THEN ds[<<tg_id, d>>].goal_ml ELSE goal_ml
        IN [date |-> d, total_ml |-> total, goal_ml |-> g,
            met_goal |-> IF has THEN ds[<<tg_id, d>>].met_goal
                         ELSE IF g > 0 /\ total >= g THEN 1 ELSE 0]]

\* faulty version: the percentage without max(0, min(100, ...))
pct_today_unclamped(total_today, goal_ml) ==
    IF goal_ml > 0 THEN PyRound(total_today * 100, goal_ml) ELSE 0

\* api_state, pct_today: int(round((total_today / goal_ml) * 100)) if
\* goal_ml > 0 else 0, then max(0, min(100, pct_today))
pct_today(total_today, goal_ml) ==
    Max(0, Min(100, IF goal_ml > 0 THEN PyRound(total_today * 100, goal_ml)
                    ELSE 0))

\* api_state, week_pct: the same over the sums of the last seven days
week_pct(last7) ==
    LET idx == 1..Len(last7)
        week_total == SumOver([i \in idx |-> last7[i].total_ml], idx)
        week_goal == SumOver([i \in idx |-> last7[i].goal_ml], idx)
    IN Max(0, Min(100, IF week_goal > 0
                       THEN PyRound(week_total * 100, week_goal) ELSE 0))

\* faulty version: total / g without the cap
ratio_uncapped(total, g) == IF g > 0 THEN <<total, g>> ELSE <<0, 1>>

\* calendar_grid, ratio: 0.0, or min(2.0, total / g) if g > 0.  The float is
\* kept as the fraction <<numerator, denominator>>.
ratio(total, g) ==
    IF g > 0
    THEN IF total < 2 * g THEN <<total, g>> ELSE <<2, 1>>
    ELSE <<0, 1>>

\* calendar_grid: the 42 cells from the Monday on or before the first day of
\* the month.  first is the month's first date, weekday its weekday
\* (Monday = 0), last_day the month's length; the day-of-month number of a
\* cell is left out.
calendar_grid(ds, tg_id, first, weekday, last_day, goal_ml) ==
    LET start == first - weekday
    IN [i \in 1..42 |->
          LET d == start + (i - 1)
              has == <<tg_id, d>> \in DOMAIN ds
              total == IF has THEN ds[<<tg_id, d>>].total_ml ELSE 0
              g == IF has THEN ds[<<tg_id, d>>].goal_ml ELSE goal_ml
          IN [date |-> d, in_month |-> (first <= d /\ d < first + last_day),
              total_ml |-> total, goal_ml |-> g, ratio |-> ratio(total, g)]]

\* the local best of that call (0 on the no-rows path)
LocalBest(ds, tg_id) ==
    IF RowDates(ds, tg_id) = {} THEN 0 ELSE ScanBest(ds, tg_id)

\* api_state / api_add: "If goal not set but weight exists, compute it"
GoalInEffect(u) ==
    IF u.goal_ml <= 0 /\ u.weight_kg > 0
    THEN calc_goal(u.weight_kg, u.factor_ml)
    ELSE u.goal_ml

----------------------------------------------------------------------------
(* Responses *)

\* ACHIEVEMENTS: the thresholds
ACHIEVEMENTS == {7, 14, 30}

\* faulty version: unlocked = best_streak > a["threshold"]
achievements_strict(best_streak) == {a \in ACHIEVEMENTS : best_streak > a}

\* api_state, "# Achievements": the thresholds of the entries of ach that are
\* unlocked
achievements(best_streak) == {a \in ACHIEVEMENTS : best_streak >= a}

\* a 200 response: the JSON fields the handlers return, with the local best
\* of the recompute_streaks call the handler made
Response(op, user, day, entry_id, us, ds, scan_best) ==
    [op |-> op, status |-> 200, user |-> user, day |-> day,
     entry_id |-> entry_id,
     today_total |-> ds[<<user, day>>].total_ml,
     today_met |-> ds[<<user, day>>].met_goal,
     current_streak |-> us[user].current_streak,
     best_streak |-> us[user].best_streak,
     scan_best |-> scan_best,
     achievements |-> achievements(us[user].best_streak)]

\* an HTTPException
Rejected(op, status) ==
    [op |-> op, status |-> status, user |-> 0, day |-> 0, entry_id |-> 0,
     today_total |-> 0, today_met |-> 0, current_streak |-> 0,
     best_streak |-> 0, scan_best |-> 0, achievements |-> {}]

NoResponse == Rejected("none", 0)

\* no add request is the latest one
NoPrior == [set |-> FALSE, user |-> 0, day |-> 0, row |-> << >>]

\* the workers that serve requests side by side
Workers == {1, 2}

\* a worker between two requests
Idle == [pc |-> "idle", op |-> "none", goal_ml |-> 0, day |-> 0, date |-> 0,
         entry_id |-> 0,
         total |-> 0, today_total |-> 0, today_met |-> 0,
         current |-> 0, best |-> 0, rows |-> FALSE]

NoneInFlight == [w \in Workers |-> Idle]

\* no state snapshot has been sent
NoneShown == [u \in {1, 2} |-> {}]

----------------------------------------------------------------------------
(* src/app.py: the routes *)

\* POST /api/state
api_state(init, client_date) ==
    /\ variant = "app"
    /\ IF ~Authenticated(init)
       THEN /\ resp' = Rejected("state", 401)
            /\ UNCHANGED appVars
       ELSE LET us1 == ensure_user(users, init.id, init.names)
                goal_ml == GoalInEffect(us1[init.id])
                us2 == [us1 EXCEPT ![init.id].goal_ml = goal_ml]
                ds1 == upsert_daily_stats(daily_stats, entries, init.id,
                                          client_date, goal_ml)
                us3 == recompute_streaks(us2, ds1, init.id, client_date)
            IN /\ users' = us3
               /\ daily_stats' = ds1
               /\ resp' = Response("state", init.id, client_date, 0, us3, ds1,
                                   LocalBest(ds1, init.id))
               /\ UNCHANGED <<entries, lastId>>
    /\ UNCHANGED <<variant, client, dbVars>>

\* POST /api/add, for the model's first cap entries
api_add_upto(cap, init, ml, drink, client_date, client_ts) ==
    /\ variant = "app"
    /\ IF ~ValidMl(ml)
       THEN /\ resp' = Rejected("add", 400)
            /\ UNCHANGED appVars
       ELSE IF ~Authenticated(init)
       THEN /\ resp' = Rejected("add", 401)
            /\ UNCHANGED appVars
       ELSE LET drink_type == NormalizeDrink(drink)
                us1 == ensure_user(users, init.id, init.names)
                goal_ml == GoalInEffect(us1[init.id])
                us2 == [us1 EXCEPT ![init.id].goal_ml = goal_ml]
                before == upsert_daily_stats(daily_stats, entries, init.id,
                                             client_date, goal_ml)
                entry_id == lastId + 1
                row == [telegram_id |-> init.id, date |-> client_date,
                        ts |-> client_ts, drink_type |-> drink_type,
                        raw_ml |-> ml, effective_ml |-> Effective(ml, drink_type)]
                es1 == [i \in DOMAIN entries \cup {entry_id} |->
                           IF i = entry_id THEN row ELSE entries[i]]
                after == upsert_daily_stats(before, es1, init.id, client_date,
                                            goal_ml)
                us3 == recompute_streaks(us2, after, init.id, client_date)
            IN /\ lastId < cap
               /\ entries' = es1
               /\ lastId' = entry_id
               /\ daily_stats' = after
               /\ users' = us3
               /\ resp' = Response("add", init.id, client_date, entry_id, us3,
                                   after, LocalBest(after, init.id))
    /\ UNCHANGED <<variant, client, dbVars>>

\* faulty version: the INSERT reuses the id of the latest entry (INSERT OR
\* REPLACE with a stale id) and so rewrites that entry
api_add_reusing_id(init, ml, drink, client_date, client_ts) ==
    /\ variant = "app"
    /\ IF ~ValidMl(ml)
       THEN /\ resp' = Rejected("add", 400)
            /\ UNCHANGED appVars
       ELSE IF ~Authenticated(init)
       THEN /\ resp' = Rejected("add", 401)
            /\ UNCHANGED appVars
       ELSE LET drink_type == NormalizeDrink(drink)
                us1 == ensure_user(users, init.id, init.names)
                goal_ml == GoalInEffect(us1[init.id])
                us2 == [us1 EXCEPT ![init.id].goal_ml = goal_ml]
                before == upsert_daily_stats(daily_stats, entries, init.id,
                                             client_date, goal_ml)
                entry_id == Max(lastId, 1)
                row == [telegram_id |-> init.id, date |-> client_date,
                        ts |-> client_ts, drink_type |-> drink_type,
                        raw_ml |-> ml, effective_ml |-> Effective(ml, drink_type)]
                es1 == [i \in DOMAIN entries \cup {entry_id} |->
                           IF i = entry_id THEN row ELSE entries[i]]
                after == upsert_daily_stats(before, es1, init.id, client_date,
                                            goal_ml)
                us3 == recompute_streaks(us2, after, init.id, client_date)
            IN /\ lastId <= MaxEntries
               /\ entries' = es1
               /\ lastId' = entry_id
               /\ daily_stats' = after
               /\ users' = us3
               /\ resp' = Response("add", init.id, client_date, entry_id, us3,
                                   after, LocalBest(after, init.id))
    /\ UNCHANGED <<variant, client, dbVars>>
\* POST /api/add
api_add(init, ml, drink, client_date, client_ts) ==
    api_add_upto(MaxEntries, init, ml, drink, client_date, client_ts)

\* faulty version: SELECT * FROM entries WHERE id=?, the owner is not compared
EntryFoundAnyOwner(es, entry_id, tg_id) == entry_id \in DOMAIN es

\* api_undo: SELECT * FROM entries WHERE id=? AND telegram_id=?
EntryFound(es, entry_id, tg_id) ==
    entry_id \in DOMAIN es /\ es[entry_id].telegram_id = tg_id

\* POST /api/undo
api_undo(init, entry_id, client_date) ==
    /\ variant = "app"
    /\ IF entry_id <= 0
       THEN /\ resp' = Rejected("undo", 400)
            /\ UNCHANGED appVars
       ELSE IF ~Authenticated(init)
       THEN /\ resp' = Rejected("undo", 401)
            /\ UNCHANGED appVars
       ELSE LET us1 == ensure_user(users, init.id, init.names)
                goal_ml == us1[init.id].goal_ml
            IN IF ~EntryFound(entries, entry_id, init.id)
               THEN /\ users' = us1
                    /\ resp' = Rejected("undo", 404)
                    /\ UNCHANGED <<entries, lastId, daily_stats>>
               ELSE LET day == entries[entry_id].date
                        es1 == [i \in DOMAIN entries \ {entry_id} |-> entries[i]]
                        ds1 == upsert_daily_stats(daily_stats, es1, init.id,
                                                  day, goal_ml)
                        ds2 == upsert_daily_stats(ds1, es1, init.id,
                                                  client_date, goal_ml)
                        us2 == recompute_streaks(us1, ds2, init.id, client_date)
                    IN /\ entries' = es1
                       /\ daily_stats' = ds2
                       /\ users' = us2
                       /\ resp' = Response("undo", init.id, client_date,
                                           entry_id, us2, ds2,
                                           LocalBest(ds2, init.id))
                       /\ UNCHANGED lastId
    /\ UNCHANGED <<variant, client, dbVars>>

\* POST /api/profile; an absent payload field is <<>>, a present one <<value>>
api_profile(init, weight_kg, factor_ml, goal_ml, client_date) ==
    /\ variant = "app"
    /\ IF ~Authenticated(init)
       THEN /\ resp' = Rejected("profile", 401)
            /\ UNCHANGED appVars
       ELSE LET us1 == ensure_user(users, init.id, init.names)
                user == us1[init.id]
                new_weight == IF weight_kg # <<>>
                              THEN Max(0, Min(300, weight_kg[1]))
                              ELSE user.weight_kg
                new_factor == IF factor_ml # <<>>
                              THEN Max(30, Min(35, factor_ml[1]))
                              ELSE user.factor_ml
                goal0 == IF goal_ml # <<>>
                         THEN Max(0, Min(10000, goal_ml[1]))
                         ELSE user.goal_ml
                computed == calc_goal(new_weight, new_factor)
                new_goal == IF goal_ml = <<>>
                               /\ (weight_kg # <<>> \/ factor_ml # <<>>)
                               /\ computed > 0
                            THEN computed ELSE goal0
                us2 == [us1 EXCEPT ![init.id].weight_kg = new_weight,
                                   ![init.id].factor_ml = new_factor,
                                   ![init.id].goal_ml = new_goal]
                ds1 == upsert_daily_stats(daily_stats, entries, init.id,
                                          client_date, new_goal)
            IN /\ users' = us2
               /\ daily_stats' = ds1
               /\ resp' = Response("profile", init.id, client_date, 0, us2,
                                   ds1, 0)
               /\ UNCHANGED <<entries, lastId>>
    /\ UNCHANGED <<variant, client, dbVars>>

----------------------------------------------------------------------------
(* src/db.py: class Database.  A NULL column is <<>>, a value v is <<v>>. *)

MinutesPerDay == 1440

\* local_date_str_from_utc: the date part of now_utc + tz_offset_min
local_date_str_from_utc(now_utc, tz_offset_min) ==
    (now_utc + tz_offset_min) \div MinutesPerDay

\* get_profile: the row, or the default dict when the user has none
get_profile(us, tg_id) ==
    IF tg_id \in DOMAIN us THEN us[tg_id]
    ELSE [weight_kg |-> <<>>, ml_per_kg |-> 33, goal_ml |-> 2000,
          current_streak |-> 0, best_streak |-> 0, last_streak_date |-> <<>>]

\* ensure_user: INSERT OR IGNORE
db_ensure_user(us, tg_id, default_ml_per_kg) ==
    IF tg_id \in DOMAIN us THEN us
    ELSE [x \in DOMAIN us \cup {tg_id} |->
            IF x = tg_id
            THEN [weight_kg |-> <<>>, ml_per_kg |-> default_ml_per_kg,
                  goal_ml |-> 2000, current_streak |-> 0, best_streak |-> 0,
                  last_streak_date |-> <<>>]
            ELSE us[x]]

\* set_goal: UPDATE users SET goal_ml=? WHERE tg_id=?
set_goal(us, tg_id, goal_ml) ==
    IF tg_id \in DOMAIN us THEN [us EXCEPT ![tg_id].goal_ml = goal_ml] ELSE us

\* set_weight
set_weight(us, tg_id, weight_kg) ==
    IF tg_id \in DOMAIN us
    THEN [us EXCEPT ![tg_id].weight_kg = <<weight_kg>>] ELSE us

\* set_factor
set_factor(us, tg_id, ml_per_kg) ==
    IF tg_id \in DOMAIN us THEN [us EXCEPT ![tg_id].ml_per_kg = ml_per_kg] ELSE us

\* recompute_goal_from_formula: the users table after the call
recompute_goal_from_formula(us, tg_id) ==
    LET prof == get_profile(us, tg_id)
        w == prof.weight_kg
    IN IF w = <<>> \/ w = <<0>> THEN us
       ELSE set_goal(us, tg_id, w[1] * prof.ml_per_kg)

\* get_total_for_date
get_total_for_date(log, tg_id, local_date) ==
    LET ids == {i \in DOMAIN log :
                    log[i].tg_id = tg_id /\ log[i].local_date = local_date}
    IN SumOver([i \in ids |-> log[i].amount_ml], ids)

\* get_day_done
get_day_done(dd, tg_id, local_date) ==
    IF <<tg_id, local_date>> \notin DOMAIN dd THEN FALSE
    ELSE dd[<<tg_id, local_date>>].total_ml >= dd[<<tg_id, local_date>>].goal_ml

\* faulty version: no early return when the streak was already updated for
\* that date (delta == 0 falls through to the last branch)
update_streak_no_same_day_return(us, dd, tg_id, local_date) ==
    LET prof == get_profile(us, tg_id)
        last == prof.last_streak_date
        delta == local_date - last[1]
        current == IF last # <<>> /\ delta = 1
                   THEN prof.current_streak + 1 ELSE 1
        best == Max(prof.best_streak, current)
    IN IF ~get_day_done(dd, tg_id, local_date) THEN us
       ELSE IF tg_id \notin DOMAIN us THEN us
       ELSE [us EXCEPT ![tg_id].current_streak = current,
                       ![tg_id].best_streak = best,
                       ![tg_id].last_streak_date = <<local_date>>]

\* update_streak: the users table after the call
update_streak(us, dd, tg_id, local_date) ==
    LET prof == get_profile(us, tg_id)
        last == prof.last_streak_date
        delta == local_date - last[1]
        current == IF last # <<>> /\ delta = 1
                   THEN prof.current_streak + 1 ELSE 1
        best == Max(prof.best_streak, current)
    IN IF ~get_day_done(dd, tg_id, local_date) THEN us
       ELSE IF last # <<>> /\ delta = 0 THEN us
       ELSE IF tg_id \notin DOMAIN us THEN us
       ELSE [us EXCEPT ![tg_id].current_streak = current,
                       ![tg_id].best_streak = best,
                       ![tg_id].last_streak_date = <<local_date>>]

\* Database.get_last_n_days: date, total_ml and goal_ml of the n days ending at
\* end_local_date; a day with no row is filled with 0 and the profile's goal
db_get_last_n_days(dd, us, tg_id, end_local_date, n) ==
    LET start_d == end_local_date - (n - 1)
    IN [i \in 1..n |->
          LET d == start_d + (i - 1)
              has == <<tg_id, d>> \in DOMAIN dd
          IN [date |-> d,
              total_ml |-> IF has THEN dd[<<tg_id, d>>].total_ml ELSE 0,
              goal_ml |-> IF has THEN dd[<<tg_id, d>>].goal_ml
                          ELSE get_profile(us, tg_id).goal_ml]]

\* refresh_daily_stats_for_date, the upsert: the daily_stats table after it
db_upsert(dd, us, log, tg_id, local_date, utcnow) ==
    LET row == [total_ml |-> get_total_for_date(log, tg_id, local_date),
                goal_ml |-> get_profile(us, tg_id).goal_ml,
                updated_utc |-> utcnow]
        key == <<tg_id, local_date>>
    IN [k \in DOMAIN dd \cup {key} |-> IF k = key THEN row ELSE dd[k]]

\* Database.ensure_user
EnsureUser(tg_id, default_ml_per_kg) ==
    /\ variant = "db"
    /\ dbUsers' = db_ensure_user(dbUsers, tg_id, default_ml_per_kg)
    /\ UNCHANGED <<variant, client, appVars, resp, water_log, dbLastId, dbDaily, now>>

\* Database.set_goal
SetGoal(tg_id, goal_ml) ==
    /\ variant = "db"
    /\ dbUsers' = set_goal(dbUsers, tg_id, goal_ml)
    /\ UNCHANGED <<variant, client, appVars, resp, water_log, dbLastId, dbDaily, now>>

\* Database.set_weight, then Database.recompute_goal_from_formula
SetWeight(tg_id, weight_kg) ==
    /\ variant = "db"
    /\ dbUsers' = set_weight(dbUsers, tg_id, weight_kg)
    /\ UNCHANGED <<variant, client, appVars, resp, water_log, dbLastId, dbDaily, now>>

\* Database.set_factor
SetFactor(tg_id, ml_per_kg) ==
    /\ variant = "db"
    /\ dbUsers' = set_factor(dbUsers, tg_id, ml_per_kg)
    /\ UNCHANGED <<variant, client, appVars, resp, water_log, dbLastId, dbDaily, now>>

\* Database.recompute_goal_from_formula
RecomputeGoal(tg_id) ==
    /\ variant = "db"
    /\ dbUsers' = recompute_goal_from_formula(dbUsers, tg_id)
    /\ UNCHANGED <<variant, client, appVars, resp, water_log, dbLastId, dbDaily, now>>

\* Database.refresh_daily_stats_for_date
refresh_daily_stats_for_date(tg_id, local_date) ==
    /\ variant = "db"
    /\ LET dd1 == db_upsert(dbDaily, dbUsers, water_log, tg_id, local_date, now)
       IN /\ dbDaily' = dd1
          /\ dbUsers' = update_streak(dbUsers, dd1, tg_id, local_date)
    /\ UNCHANGED <<variant, client, appVars, resp, water_log, dbLastId, now>>

\* Database.add_water
add_water(tg_id, amount_ml, tz_offset_min) ==
    /\ variant = "db"
    /\ dbLastId < MaxEntries
    /\ LET local_date == local_date_str_from_utc(now, tz_offset_min)
           id == dbLastId + 1
           row == [tg_id |-> tg_id, ts_utc |-> now, local_date |-> local_date,
                   amount_ml |-> amount_ml]
           log1 == [i \in DOMAIN water_log \cup {id} |->
                      IF i = id THEN row ELSE water_log[i]]
           dd1 == db_upsert(dbDaily, dbUsers, log1, tg_id, local_date, now)
       IN /\ water_log' = log1
          /\ dbLastId' = id
          /\ dbDaily' = dd1
          /\ dbUsers' = update_streak(dbUsers, dd1, tg_id, local_date)
    /\ UNCHANGED <<variant, client, appVars, resp, now>>

\* the clock of datetime.utcnow() advances between calls
Tick ==
    /\ variant = "db"
    /\ now < MaxClockDays * MinutesPerDay
    /\ now' = now + MinutesPerDay
    /\ UNCHANGED <<variant, client, appVars, resp, dbUsers, water_log, dbLastId, dbDaily>>

----------------------------------------------------------------------------
(* The requests the model sends *)

Ann == [valid |-> TRUE, id |-> 1, names |-> "ann"]
Bob == [valid |-> TRUE, id |-> 2, names |-> "bob"]
Bobby == [valid |-> TRUE, id |-> 2, names |-> "bobby"]
Forged == [valid |-> FALSE, id |-> 1, names |-> "ann"]
NoUserId == [valid |-> TRUE, id |-> 0, names |-> ""]

StateRequests ==
    [init : {Ann}, client_date : Days]
    \cup [init : {Bob, Bobby, Forged, NoUserId}, client_date : {1}]

AddRequests ==
    [init : {Ann}, ml : {3}, drink : {"water", "tea"}, client_date : Days,
     client_ts : {"t1"}]
    \cup [init : {Bob, Forged}, ml : {3}, drink : {"water"}, client_date : {1},
          client_ts : {"t1"}]
    \cup [init : {Ann}, ml : {0, 5001}, drink : {"water"}, client_date : {1},
          client_ts : {"t1"}]

UndoRequests ==
    [init : {Ann}, entry_id : 0..MaxEntries, client_date : Days]
    \cup [init : {Bob, Forged}, entry_id : 1..MaxEntries, client_date : {1}]

ProfileRequests ==
    [init : {Ann}, weight_kg : {<<>>}, factor_ml : {<<>>}, goal_ml : {<<2>>},
     client_date : Days]
    \cup [init : {Forged}, weight_kg : {<<>>}, factor_ml : {<<>>},
          goal_ml : {<<2>>}, client_date : {1}]

Init ==
    /\ variant \in {"app", "db"}
    /\ client = [ml |-> 3, drink |-> "water"]
    /\ users = << >>
    /\ entries = << >>
    /\ lastId = 0
    /\ daily_stats = << >>
    /\ resp = NoResponse
    /\ dbUsers = << >>
    /\ water_log = << >>
    /\ dbLastId = 0
    /\ dbDaily = << >>
    /\ now = 0
    /\ prior = NoPrior
    /\ inflight = NoneInFlight
    /\ shown = NoneShown
    /\ advanced = {}

State == \E r \in StateRequests :
            api_state(r.init, r.client_date) /\ UNCHANGED <<prior, inflight, shown, advanced>>

Add == \E r \in AddRequests :
          /\ api_add(r.init, r.ml, r.drink, r.client_date, r.client_ts)
          /\ UNCHANGED <<prior, inflight, shown, advanced>>

Undo == \E r \in UndoRequests :
           api_undo(r.init, r.entry_id, r.client_date) /\ UNCHANGED <<prior, inflight, shown, advanced>>

Profile == \E r \in ProfileRequests :
              /\ api_profile(r.init, r.weight_kg, r.factor_ml, r.goal_ml,
                             r.client_date)
              /\ UNCHANGED <<prior, inflight, shown, advanced>>

DbUserIds == {1}
DbAmounts == {0, 2000, 5001}
DbOffsets == {-720, 0}
DbGoals == {0}
DbDates == {local_date_str_from_utc(t, off) :
               t \in {0, MaxClockDays * MinutesPerDay}, off \in DbOffsets}

DbEnsureUser == \E u \in DbUserIds : EnsureUser(u, 33) /\ UNCHANGED <<prior, inflight, shown, advanced>>

DbSetGoal == \E u \in DbUserIds, g \in DbGoals :
                SetGoal(u, g) /\ UNCHANGED <<prior, inflight, shown, advanced>>

DbRefresh == \E u \in DbUserIds, d \in DbDates :
                refresh_daily_stats_for_date(u, d) /\ UNCHANGED <<prior, inflight, shown, advanced>>

DbAddWater == \E u \in DbUserIds, a \in DbAmounts, off \in DbOffsets :
                 add_water(u, a, off) /\ UNCHANGED <<prior, inflight, shown, advanced>>

DbTick == Tick /\ UNCHANGED <<prior, inflight, shown, advanced>>

Next ==
    \/ State \/ Add \/ Undo \/ Profile
    \/ DbEnsureUser \/ DbSetGoal \/ DbRefresh \/ DbAddWater \/ DbTick

Spec == Init /\ [][Next]_vars

----------------------------------------------------------------------------
(* SpecAdd: api_add over every amount and drink type.  The client's button   *)
(* is drawn at the start and pressed up to MaxEntries times, on any day.     *)

AllAmounts == 0..5001
AllDrinks == {"water", "tea", "coffee", "juice"}

InitAdd ==
    /\ variant = "app"
    /\ client \in [ml : AllAmounts, drink : AllDrinks]
    /\ users = << >>
    /\ entries = << >>
    /\ lastId = 0
    /\ daily_stats = << >>
    /\ resp = NoResponse
    /\ dbUsers = << >>
    /\ water_log = << >>
    /\ dbLastId = 0
    /\ dbDaily = << >>
    /\ now = 0
    /\ prior = NoPrior
    /\ inflight = NoneInFlight
    /\ shown = NoneShown
    /\ advanced = {}

ClientAdd == \E d \in {1, MaxDay} :
                /\ api_add(Ann, client.ml, client.drink, d, "t1")
                /\ UNCHANGED <<prior, inflight, shown, advanced>>

NextAdd == ClientAdd

SpecAdd == InitAdd /\ [][NextAdd]_vars

----------------------------------------------------------------------------
(* SpecStreak: recompute_streaks over every daily_stats history of one week. *)
(* The start states are those app.py reaches by one api_add of 3 ml of water *)
(* per day of met (while the goal is still 0) followed by one                *)
(* api_profile(goal_ml = 2, client_date = d) per day d of met and unmet,     *)
(* ascending: api_profile upserts the day's row and runs no streak           *)
(* recompute, so the streak counters are still 0.                            *)

Week == 1..MaxWeek

WeekEntries(met) ==
    LET days == SortAsc(met)
    IN [i \in 1..Len(days) |->
          [telegram_id |-> 1, date |-> days[i], ts |-> "t1",
           drink_type |-> "water", raw_ml |-> 3, effective_ml |-> 3]]

WeekStats(met, unmet) ==
    [k \in {1} \X (met \cup unmet) |->
       IF k[2] \in met
       THEN [total_ml |-> 3, goal_ml |-> 2, met_goal |-> 1]
       ELSE [total_ml |-> 0, goal_ml |-> 2, met_goal |-> 0]]

WeekUsers ==
    [x \in {1} |-> [names |-> "ann", weight_kg |-> 0, factor_ml |-> 33,
                    goal_ml |-> 2, best_streak |-> 0, current_streak |-> 0]]

InitStreak ==
    \E met \in SUBSET Week :
      \E unmet \in SUBSET (Week \ met) :
        /\ met \cup unmet # {}
        /\ variant = "app"
        /\ client = [ml |-> 3, drink |-> "water"]
        /\ users = WeekUsers
        /\ entries = WeekEntries(met)
        /\ lastId = Cardinality(met)
        /\ daily_stats = WeekStats(met, unmet)
        /\ resp = Response("profile", 1,
                           CHOOSE d \in met \cup unmet :
                               \A e \in met \cup unmet : e <= d,
                           0, WeekUsers, WeekStats(met, unmet), 0)
        /\ dbUsers = << >>
        /\ water_log = << >>
        /\ dbLastId = 0
        /\ dbDaily = << >>
        /\ now = 0
        /\ prior = NoPrior
        /\ inflight = NoneInFlight
        /\ shown = NoneShown
        /\ advanced = {}

WeekQuery == \E d \in Week : api_state(Ann, d) /\ UNCHANGED <<prior, inflight, shown, advanced>>

NextStreak == WeekQuery

SpecStreak == InitStreak /\ [][NextStreak]_vars

----------------------------------------------------------------------------
(* SpecRoundTrip: one user who changes the goal, adds, and undoes.  prior    *)
(* remembers the daily_stats row of the add's day as it was before the add   *)
(* request, while that add is the latest request or has just been undone.    *)

\* the row of (tg_id, day) as the table holds it now: <<>> when there is none
PriorRow(tg_id, day) ==
    [set |-> TRUE, user |-> tg_id, day |-> day,
     row |-> IF <<tg_id, day>> \in DOMAIN daily_stats
             THEN <<daily_stats[<<tg_id, day>>]>> ELSE << >>]

RoundTripProfile ==
    \E d \in Days :
        /\ api_profile(Ann, << >>, << >>, <<2>>, d)
        /\ prior' = NoPrior
        /\ UNCHANGED <<inflight, shown, advanced>>

RoundTripAdd ==
    \E d \in Days, drink \in {"water", "tea"} :
        /\ api_add(Ann, 3, drink, d, "t1")
        /\ prior' = PriorRow(Ann.id, d)
        /\ UNCHANGED <<inflight, shown, advanced>>

RoundTripUndo ==
    \E i \in 1..MaxEntries, d \in Days :
        /\ api_undo(Ann, i, d)
        /\ prior' = IF resp.op = "add" /\ resp.status = 200
                       /\ resp.entry_id = i /\ resp'.status = 200
                    THEN prior ELSE NoPrior
        /\ UNCHANGED <<inflight, shown, advanced>>

NextRoundTrip == RoundTripProfile \/ RoundTripAdd \/ RoundTripUndo

InitRoundTrip == Init /\ variant = "app"

SpecRoundTrip == InitRoundTrip /\ [][NextRoundTrip]_vars

----------------------------------------------------------------------------
(* SpecEndToEnd: a new user adds 500 ml or 2310 ml, sets the weight to 70,   *)
(* and adds again; in app.py through the routes, in db.py through Database.  *)

EndToEndAmounts == {500, 2310}
EndToEndDays == 1..MaxEndToEndDay

EndToEndAdd ==
    \E ml \in EndToEndAmounts, d \in EndToEndDays :
        api_add(Ann, ml, "water", d, "t1") /\ UNCHANGED <<prior, inflight, shown, advanced>>

EndToEndWeight ==
    \E d \in EndToEndDays :
        api_profile(Ann, <<70>>, << >>, << >>, d) /\ UNCHANGED <<prior, inflight, shown, advanced>>

EndToEndState == \E d \in EndToEndDays : api_state(Ann, d) /\ UNCHANGED <<prior, inflight, shown, advanced>>

EndToEndDbAdd ==
    \E ml \in EndToEndAmounts : add_water(1, ml, 0) /\ UNCHANGED <<prior, inflight, shown, advanced>>

EndToEndDbWeight == SetWeight(1, 70) /\ UNCHANGED <<prior, inflight, shown, advanced>>

EndToEndDbGoal == RecomputeGoal(1) /\ UNCHANGED <<prior, inflight, shown, advanced>>

NextEndToEnd ==
    \/ EndToEndAdd \/ EndToEndWeight \/ EndToEndState
    \/ DbEnsureUser \/ EndToEndDbAdd \/ EndToEndDbWeight \/ EndToEndDbGoal
    \/ DbTick

SpecEndToEnd == Init /\ [][NextEndToEnd]_vars

----------------------------------------------------------------------------
(* SpecGoal: the goal derived from weight and factor.  app.py: api_profile   *)
(* with a weight and/or a factor and no explicit goal, and api_state; db.py: *)
(* set_weight, set_factor and recompute_goal_from_formula.                   *)

GoalWeights == {0, 70, 100}
GoalFactors == {29, 33, 36}

GoalProfileRequests ==
    [init : {Ann}, weight_kg : {<<w>> : w \in GoalWeights} \cup {<< >>},
     factor_ml : {<<f>> : f \in GoalFactors} \cup {<< >>},
     goal_ml : {<< >>}, client_date : Days]

GoalProfile ==
    \E r \in GoalProfileRequests :
        /\ api_profile(r.init, r.weight_kg, r.factor_ml, r.goal_ml,
                       r.client_date)
        /\ UNCHANGED <<prior, inflight, shown, advanced>>

GoalState == \E d \in Days : api_state(Ann, d) /\ UNCHANGED <<prior, inflight, shown, advanced>>

GoalSetWeight == \E w \in GoalWeights : SetWeight(1, w) /\ UNCHANGED <<prior, inflight, shown, advanced>>

GoalSetFactor == \E k \in GoalFactors : SetFactor(1, k) /\ UNCHANGED <<prior, inflight, shown, advanced>>

GoalRecompute == RecomputeGoal(1) /\ UNCHANGED <<prior, inflight, shown, advanced>>

NextGoal ==
    \/ GoalProfile \/ GoalState
    \/ DbEnsureUser \/ GoalSetWeight \/ GoalSetFactor \/ GoalRecompute

SpecGoal == Init /\ [][NextGoal]_vars

----------------------------------------------------------------------------
(* SpecProfile: profile updates with values inside and outside the bounds.   *)

ProfileWeights == {10, 70, 301}
ProfileFactors == {29, 33, 36}
ProfileGoals == {100, 2000, 10001}

BoundsProfileRequests ==
    [init : {Ann}, weight_kg : {<<w>> : w \in ProfileWeights} \cup {<< >>},
     factor_ml : {<<f>> : f \in ProfileFactors} \cup {<< >>},
     goal_ml : {<<g>> : g \in ProfileGoals} \cup {<< >>}, client_date : Days]

BoundsProfile ==
    \E r \in BoundsProfileRequests :
        /\ api_profile(r.init, r.weight_kg, r.factor_ml, r.goal_ml,
                       r.client_date)
        /\ UNCHANGED <<prior, inflight, shown, advanced>>

BoundsSetWeight == \E w \in ProfileWeights : SetWeight(1, w) /\ UNCHANGED <<prior, inflight, shown, advanced>>

BoundsSetFactor == \E k \in ProfileFactors : SetFactor(1, k) /\ UNCHANGED <<prior, inflight, shown, advanced>>

BoundsSetGoal == \E g \in ProfileGoals : SetGoal(1, g) /\ UNCHANGED <<prior, inflight, shown, advanced>>

NextProfile ==
    \/ BoundsProfile
    \/ DbEnsureUser \/ BoundsSetWeight \/ BoundsSetFactor \/ BoundsSetGoal

SpecProfile == Init /\ [][NextProfile]_vars

----------------------------------------------------------------------------
(* SpecMidDay: a goal of 5 and intakes of 3 and 5, so that a day can stay    *)
(* below the goal after an add.                                              *)

MidDayGoals == {5}
MidDayAmounts == {3, 5}

MidDayProfile == \E g \in MidDayGoals, d \in Days :
                    /\ api_profile(Ann, << >>, << >>, <<g>>, d)
                    /\ UNCHANGED <<prior, inflight, shown, advanced>>

MidDayAdd == \E ml \in MidDayAmounts, d \in Days :
                api_add(Ann, ml, "water", d, "t1") /\ UNCHANGED <<prior, inflight, shown, advanced>>

MidDayState == \E d \in Days : api_state(Ann, d) /\ UNCHANGED <<prior, inflight, shown, advanced>>

MidDaySetGoal == \E g \in MidDayGoals : SetGoal(1, g) /\ UNCHANGED <<prior, inflight, shown, advanced>>

MidDayAddWater == \E ml \in MidDayAmounts, off \in DbOffsets :
                     add_water(1, ml, off) /\ UNCHANGED <<prior, inflight, shown, advanced>>

NextMidDay ==
    \/ MidDayProfile \/ MidDayAdd \/ MidDayState
    \/ DbEnsureUser \/ MidDaySetGoal \/ MidDayAddWater \/ DbRefresh \/ DbTick

SpecMidDay == Init /\ [][NextMidDay]_vars

----------------------------------------------------------------------------
(* SpecConcurrent: requests of one user for one local date, served by two    *)
(* workers side by side.  Every statement that commits on its own (each      *)
(* handler commits after each write and reads outside any transaction) is a  *)
(* step: the day-sum SELECT and the daily_stats upsert of upsert_daily_stats *)
(* are two steps, the two SELECTs and the UPDATE of recompute_streaks are a  *)
(* read step and a write step.  Reads that the handler makes back to back    *)
(* without a write of its own in between are taken together.                 *)

ConcurrentDay == 1
ConcurrentMl == 3
ConcurrentAmount == 1000

\* the worker w moves on with the locals loc
Goto(w, loc) == inflight' = [inflight EXCEPT ![w] = loc]

At(w, pc) == inflight[w].pc = pc

\* the adds that have not inserted their entry yet
AddsToInsert ==
    Cardinality({w \in Workers :
                    inflight[w].pc \in {"add_before_read", "add_before_write",
                                        "add_insert"}})

\* upsert_daily_stats, the INSERT ... ON CONFLICT DO UPDATE with the total
\* that the SELECT before it returned
daily_stats_write(ds, tg_id, day, total, goal_ml) ==
    LET row == [total_ml |-> total, goal_ml |-> goal_ml,
                met_goal |-> MetGoal(goal_ml, total)]
        key == <<tg_id, day>>
    IN [k \in DOMAIN ds \cup {key} |-> IF k = key THEN row ELSE ds[k]]

\* api_profile before the first intake, as one step
ConcurrentProfile ==
    /\ entries = << >> /\ inflight = NoneInFlight
    /\ api_profile(Ann, << >>, << >>, <<2>>, ConcurrentDay)
    /\ UNCHANGED <<prior, inflight, shown, advanced>>

\* api_add up to its first upsert_daily_stats: identity, ensure_user, goal
AddStart(w) ==
    /\ variant = "app" /\ At(w, "idle")
    /\ lastId + AddsToInsert < MaxEntries
    /\ LET us1 == ensure_user(users, Ann.id, Ann.names)
           goal_ml == GoalInEffect(us1[Ann.id])
       IN /\ users' = [us1 EXCEPT ![Ann.id].goal_ml = goal_ml]
          /\ Goto(w, [Idle EXCEPT !.pc = "add_before_read", !.op = "add",
                                  !.goal_ml = goal_ml, !.day = ConcurrentDay])
    /\ UNCHANGED <<variant, client, entries, lastId, daily_stats, resp, dbVars,
                   prior, shown, advanced>>

\* upsert_daily_stats: SELECT COALESCE(SUM(effective_ml),0)
DaySumRead(w, pc, next, day) ==
    /\ variant = "app" /\ At(w, pc)
    /\ Goto(w, [inflight[w] EXCEPT !.pc = next,
                                   !.total = DayTotal(entries, Ann.id, day)])
    /\ UNCHANGED <<variant, client, appVars, resp, dbVars, prior, shown, advanced>>

\* upsert_daily_stats: the upsert, its commit, and the SELECT of the row
DayStatWrite(w, pc, next, day) ==
    /\ variant = "app" /\ At(w, pc)
    /\ daily_stats' = daily_stats_write(daily_stats, Ann.id, day,
                                        inflight[w].total, inflight[w].goal_ml)
    /\ Goto(w, [inflight[w] EXCEPT
                   !.pc = next,
                   !.today_total = inflight[w].total,
                   !.today_met = MetGoal(inflight[w].goal_ml, inflight[w].total)])
    /\ UNCHANGED <<variant, client, users, entries, lastId, resp, dbVars, prior, shown, advanced>>

AddBeforeRead(w) ==
    DaySumRead(w, "add_before_read", "add_before_write", inflight[w].day)

AddBeforeWrite(w) ==
    DayStatWrite(w, "add_before_write", "add_insert", inflight[w].day)

\* api_add: INSERT INTO entries, commit
AddInsert(w) ==
    /\ variant = "app" /\ At(w, "add_insert")
    /\ LET entry_id == lastId + 1
           row == [telegram_id |-> Ann.id, date |-> inflight[w].day,
                   ts |-> "t1", drink_type |-> "water", raw_ml |-> ConcurrentMl,
                   effective_ml |-> Effective(ConcurrentMl, "water")]
       IN /\ entries' = [i \in DOMAIN entries \cup {entry_id} |->
                            IF i = entry_id THEN row ELSE entries[i]]
          /\ lastId' = entry_id
          /\ Goto(w, [inflight[w] EXCEPT !.pc = "add_after_read",
                                         !.entry_id = entry_id])
    /\ UNCHANGED <<variant, client, users, daily_stats, resp, dbVars, prior, shown, advanced>>

AddAfterRead(w) ==
    DaySumRead(w, "add_after_read", "add_after_write", inflight[w].day)

AddAfterWrite(w) ==
    DayStatWrite(w, "add_after_write", "streak_read", inflight[w].day)

\* api_undo up to its DELETE: identity, ensure_user, SELECT of the entry
UndoStart(w, entry_id) ==
    /\ variant = "app" /\ At(w, "idle")
    /\ LET us1 == ensure_user(users, Ann.id, Ann.names)
       IN /\ users' = us1
          /\ IF ~EntryFound(entries, entry_id, Ann.id)
             THEN /\ resp' = Rejected("undo", 404)
                  /\ UNCHANGED <<inflight, shown, advanced>>
             ELSE /\ Goto(w, [Idle EXCEPT !.pc = "undo_delete", !.op = "undo",
                                          !.goal_ml = us1[Ann.id].goal_ml,
                                          !.day = ConcurrentDay,
                                          !.date = entries[entry_id].date,
                                          !.entry_id = entry_id])
                  /\ UNCHANGED resp
    /\ UNCHANGED <<variant, client, entries, lastId, daily_stats, dbVars, prior, shown, advanced>>

\* api_undo: DELETE FROM entries WHERE id=? AND telegram_id=?, commit
UndoDelete(w) ==
    /\ variant = "app" /\ At(w, "undo_delete")
    /\ entries' = [i \in DOMAIN entries \ {inflight[w].entry_id} |-> entries[i]]
    /\ Goto(w, [inflight[w] EXCEPT !.pc = "undo_day_read"])
    /\ UNCHANGED <<variant, client, users, lastId, daily_stats, resp, dbVars,
                   prior, shown, advanced>>

UndoDayRead(w) ==
    DaySumRead(w, "undo_day_read", "undo_day_write", inflight[w].date)

UndoDayWrite(w) ==
    DayStatWrite(w, "undo_day_write", "undo_today_read", inflight[w].date)

UndoTodayRead(w) ==
    DaySumRead(w, "undo_today_read", "undo_today_write", inflight[w].day)

UndoTodayWrite(w) ==
    DayStatWrite(w, "undo_today_write", "streak_read", inflight[w].day)

\* recompute_streaks: the two SELECTs over daily_stats and the two loops
StreakRead(w) ==
    /\ variant = "app" /\ At(w, "streak_read")
    /\ LET rows == RowDates(daily_stats, Ann.id) # {}
       IN Goto(w, [inflight[w] EXCEPT
                     !.pc = "streak_write",
                     !.rows = rows,
                     !.best = IF rows THEN ScanBest(daily_stats, Ann.id) ELSE 0,
                     !.current = IF rows
                                 THEN ScanCurrent(daily_stats, Ann.id,
                                                  inflight[w].day)
                                 ELSE 0])
    /\ UNCHANGED <<variant, client, appVars, resp, dbVars, prior, shown, advanced>>

\* recompute_streaks: the UPDATE of users, its commit, and the response.
\* api_undo reads today's row once more for its response.
StreakWrite(w) ==
    /\ variant = "app" /\ At(w, "streak_write")
    /\ LET loc == inflight[w]
           us1 == IF loc.rows
                  THEN [users EXCEPT
                          ![Ann.id].current_streak = loc.current,
                          ![Ann.id].best_streak =
                              Max(users[Ann.id].best_streak, loc.best)]
                  ELSE [users EXCEPT ![Ann.id].current_streak = 0,
                                     ![Ann.id].best_streak = 0]
           today == <<Ann.id, loc.day>>
           has == today \in DOMAIN daily_stats
       IN /\ users' = us1
          /\ resp' = [op |-> loc.op, status |-> 200, user |-> Ann.id,
                      day |-> loc.day, entry_id |-> loc.entry_id,
                      today_total |->
                          IF loc.op = "add" THEN loc.today_total
                          ELSE IF has THEN daily_stats[today].total_ml ELSE 0,
                      today_met |->
                          IF loc.op = "add" THEN loc.today_met
                          ELSE IF has THEN daily_stats[today].met_goal ELSE 0,
                      current_streak |-> us1[Ann.id].current_streak,
                      best_streak |-> us1[Ann.id].best_streak,
                      scan_best |-> loc.best,
                      achievements |->
                          achievements(us1[Ann.id].best_streak)]
          /\ Goto(w, Idle)
    /\ UNCHANGED <<variant, client, entries, lastId, daily_stats, dbVars, prior, shown, advanced>>

\* Database.add_water: the INSERT into water_log and its commit
DbAddInsert(w) ==
    /\ variant = "db" /\ At(w, "idle")
    /\ 1 \in DOMAIN dbUsers
    /\ dbLastId < MaxEntries
    /\ LET local_date == local_date_str_from_utc(now, 0)
           id == dbLastId + 1
           row == [tg_id |-> 1, ts_utc |-> now, local_date |-> local_date,
                   amount_ml |-> ConcurrentAmount]
       IN /\ water_log' = [i \in DOMAIN water_log \cup {id} |->
                              IF i = id THEN row ELSE water_log[i]]
          /\ dbLastId' = id
          /\ Goto(w, [Idle EXCEPT !.pc = "db_refresh_read", !.op = "add_water",
                                  !.date = local_date, !.entry_id = id])
    /\ UNCHANGED <<variant, client, appVars, resp, dbUsers, dbDaily, now, prior, shown, advanced>>

\* refresh_daily_stats_for_date: get_profile and get_total_for_date
DbRefreshRead(w) ==
    /\ variant = "db" /\ At(w, "db_refresh_read")
    /\ Goto(w, [inflight[w] EXCEPT
                  !.pc = "db_refresh_write",
                  !.goal_ml = get_profile(dbUsers, 1).goal_ml,
                  !.total = get_total_for_date(water_log, 1, inflight[w].date)])
    /\ UNCHANGED <<variant, client, appVars, resp, dbVars, prior, shown, advanced>>

\* refresh_daily_stats_for_date: the upsert and its commit
DbRefreshWrite(w) ==
    /\ variant = "db" /\ At(w, "db_refresh_write")
    /\ LET row == [total_ml |-> inflight[w].total,
                   goal_ml |-> inflight[w].goal_ml, updated_utc |-> now]
           key == <<1, inflight[w].date>>
       IN dbDaily' = [k \in DOMAIN dbDaily \cup {key} |->
                         IF k = key THEN row ELSE dbDaily[k]]
    /\ Goto(w, [inflight[w] EXCEPT !.pc = "db_streak_read"])
    /\ UNCHANGED <<variant, client, appVars, resp, dbUsers, water_log, dbLastId,
                   now, prior, shown, advanced>>

\* update_streak: get_profile, get_day_done and the branches; rows tells
\* whether the UPDATE is reached
DbStreakRead(w) ==
    /\ variant = "db" /\ At(w, "db_streak_read")
    /\ LET prof == get_profile(dbUsers, 1)
           last == prof.last_streak_date
           delta == inflight[w].date - last[1]
           current == IF last # <<>> /\ delta = 1
                      THEN prof.current_streak + 1 ELSE 1
           done_today == get_day_done(dbDaily, 1, inflight[w].date)
       IN Goto(w, [inflight[w] EXCEPT
                     !.pc = "db_streak_write",
                     !.rows = done_today /\ ~(last # <<>> /\ delta = 0),
                     !.current = current,
                     !.best = Max(prof.best_streak, current)])
    /\ UNCHANGED <<variant, client, appVars, resp, dbVars, prior, shown, advanced>>

\* update_streak: the UPDATE of users and its commit, or the early return
DbStreakWrite(w) ==
    /\ variant = "db" /\ At(w, "db_streak_write")
    /\ dbUsers' = IF inflight[w].rows /\ 1 \in DOMAIN dbUsers
                  THEN [dbUsers EXCEPT
                          ![1].current_streak = inflight[w].current,
                          ![1].best_streak = inflight[w].best,
                          ![1].last_streak_date = <<inflight[w].date>>]
                  ELSE dbUsers
    /\ Goto(w, Idle)
    /\ UNCHANGED <<variant, client, appVars, resp, water_log, dbLastId, dbDaily,
                   now, prior, shown, advanced>>

ConcurrentEnsureUser == EnsureUser(1, 33) /\ UNCHANGED <<prior, inflight, shown, advanced>>

ConcurrentAdd ==
    \E w \in Workers :
        \/ AddStart(w) \/ AddBeforeRead(w) \/ AddBeforeWrite(w)
        \/ AddInsert(w) \/ AddAfterRead(w) \/ AddAfterWrite(w)

ConcurrentUndo ==
    \E w \in Workers :
        \/ \E i \in 1..MaxEntries : UndoStart(w, i)
        \/ UndoDelete(w) \/ UndoDayRead(w) \/ UndoDayWrite(w)
        \/ UndoTodayRead(w) \/ UndoTodayWrite(w)

ConcurrentStreak == \E w \in Workers : StreakRead(w) \/ StreakWrite(w)

ConcurrentAddWater ==
    \E w \in Workers :
        \/ DbAddInsert(w) \/ DbRefreshRead(w) \/ DbRefreshWrite(w)
        \/ DbStreakRead(w) \/ DbStreakWrite(w)

NextConcurrent ==
    \/ ConcurrentProfile \/ ConcurrentAdd \/ ConcurrentUndo \/ ConcurrentStreak
    \/ ConcurrentEnsureUser \/ ConcurrentAddWater

SpecConcurrent == Init /\ [][NextConcurrent]_vars

----------------------------------------------------------------------------
(* SpecAbort: one worker serves an add, an undo or an add_water statement by *)
(* statement, and the request may end at any statement: the statement        *)
(* raises (the handlers catch nothing and roll nothing back) or the worker   *)
(* dies.  What was committed before stays committed.                         *)

\* add requests that the handler refuses: 400 for the amount, 401 for the
\* identity
RefusedAdds ==
    [init : {Ann}, ml : {0, 5001}] \cup [init : {Forged}, ml : {ConcurrentMl}]

AbortAdd ==
    \/ AddStart(1) \/ AddBeforeRead(1) \/ AddBeforeWrite(1)
    \/ AddInsert(1) \/ AddAfterRead(1) \/ AddAfterWrite(1)

AbortRefusedAdd ==
    \E r \in RefusedAdds :
        /\ inflight = NoneInFlight
        /\ api_add(r.init, r.ml, "water", ConcurrentDay, "t1")
        /\ UNCHANGED <<prior, inflight, shown, advanced>>

AbortUndo ==
    \/ \E i \in 1..MaxEntries : UndoStart(1, i)
    \/ UndoDelete(1) \/ UndoDayRead(1) \/ UndoDayWrite(1)
    \/ UndoTodayRead(1) \/ UndoTodayWrite(1)

AbortStreak == StreakRead(1) \/ StreakWrite(1)

AbortAddWater ==
    \/ DbAddInsert(1) \/ DbRefreshRead(1) \/ DbRefreshWrite(1)
    \/ DbStreakRead(1) \/ DbStreakWrite(1)

\* the request in flight ends here with an error
Abort ==
    /\ ~At(1, "idle")
    /\ Goto(1, Idle)
    /\ resp' = Rejected(inflight[1].op, 500)
    /\ UNCHANGED <<variant, client, appVars, dbVars, prior, shown, advanced>>

NextAbort ==
    \/ AbortAdd \/ AbortRefusedAdd \/ AbortUndo \/ AbortStreak
    \/ ConcurrentEnsureUser \/ AbortAddWater \/ Abort

SpecAbort == Init /\ [][NextAbort]_vars

----------------------------------------------------------------------------
(* SpecAuth: the routes behind verify_init_data and get_user_identity.  An   *)
(* initData string is the record of what the verification looks at: whether  *)
(* it is there at all, its hash field ("" when absent, "good" when it is the *)
(* HMAC of the data under the bot token, "bad" otherwise), whether its       *)
(* auth_date is older than 48 hours, and the id and names of its user JSON   *)
(* (id 0 when there is none).  BOT_TOKEN is the environment's: "" when it    *)
(* is not set.                                                               *)

BotTokens == {"", "token"}

InitDatas ==
    {[present |-> FALSE, hash |-> "", expired |-> FALSE, id |-> 0, names |-> ""],
     [present |-> TRUE, hash |-> "", expired |-> FALSE, id |-> 1, names |-> "ann"],
     [present |-> TRUE, hash |-> "bad", expired |-> FALSE, id |-> 1, names |-> "ann"],
     [present |-> TRUE, hash |-> "good", expired |-> TRUE, id |-> 1, names |-> "ann"],
     [present |-> TRUE, hash |-> "good", expired |-> FALSE, id |-> 0, names |-> ""],
     [present |-> TRUE, hash |-> "good", expired |-> FALSE, id |-> 1, names |-> "ann"]}

\* faulty version: an initData without a hash field is let through
verify_init_data_no_hash_check(init_data, bot_token) ==
    IF ~init_data.present THEN FALSE
    ELSE IF bot_token # ""
         THEN init_data.hash \in {"", "good"} /\ ~init_data.expired
         ELSE TRUE

\* verify_init_data: TRUE when it returns the parsed fields, FALSE when it
\* raises HTTPException(401)
verify_init_data(init_data, bot_token) ==
    IF ~init_data.present THEN FALSE
    ELSE IF init_data.hash = "" THEN FALSE
    ELSE IF bot_token # ""
         THEN init_data.hash = "good" /\ ~init_data.expired
         ELSE TRUE

\* get_user_identity: the verification's outcome and the user fields, which
\* the routes take through Authenticated
get_user_identity(init_data, bot_token) ==
    [valid |-> verify_init_data(init_data, bot_token),
     id |-> init_data.id, names |-> init_data.names]

AuthAmounts == {0, 3}

AuthState ==
    \E i \in InitDatas, t \in BotTokens :
        /\ api_state(get_user_identity(i, t), 1)
        /\ UNCHANGED <<prior, inflight, shown, advanced>>

AuthAdd ==
    \E i \in InitDatas, t \in BotTokens, ml \in AuthAmounts :
        /\ api_add(get_user_identity(i, t), ml, "water", 1, "t1")
        /\ UNCHANGED <<prior, inflight, shown, advanced>>

AuthUndo ==
    \E i \in InitDatas, t \in BotTokens, e \in 0..MaxEntries :
        /\ api_undo(get_user_identity(i, t), e, 1)
        /\ UNCHANGED <<prior, inflight, shown, advanced>>

AuthProfile ==
    \E i \in InitDatas, t \in BotTokens :
        /\ api_profile(get_user_identity(i, t), << >>, << >>, <<2>>, 1)
        /\ UNCHANGED <<prior, inflight, shown, advanced>>

NextAuth == AuthState \/ AuthAdd \/ AuthUndo \/ AuthProfile

InitAuth == Init /\ variant = "app"

SpecAuth == InitAuth /\ [][NextAuth]_vars

----------------------------------------------------------------------------
(* SpecAchievements: one user a day short of an achievement.  The start      *)
(* states are those app.py reaches, for a threshold a of ACHIEVEMENTS, by    *)
(* one api_add of 3 ml of water on each of the days 1..a-1 (while the goal   *)
(* is still 0) followed by one api_profile(goal_ml = 2, client_date = d) per *)
(* day d, ascending: every day is met and, api_profile running no streak     *)
(* recompute, the streak counters are still 0.  The user then queries the    *)
(* state, adds, undoes one of the two latest entries and changes the goal,   *)
(* on the last day of the history or on the day after it.  shown collects    *)
(* what the state snapshots have shown unlocked.                             *)

MaxExtraEntries == 1

AchievementGoals == {2, 5}

\* the achievement the history is a day short of, or has just reached
Ahead ==
    CHOOSE a \in ACHIEVEMENTS :
        /\ <<Ann.id, a - 1>> \in DOMAIN daily_stats
        /\ \A b \in ACHIEVEMENTS :
              <<Ann.id, b - 1>> \in DOMAIN daily_stats => b <= a

AchievementDays == {Ahead - 1, Ahead}

InitAchievements ==
    \E a \in ACHIEVEMENTS :
        /\ variant = "app"
        /\ client = [ml |-> 3, drink |-> "water"]
        /\ users = WeekUsers
        /\ entries = WeekEntries(1..(a - 1))
        /\ lastId = a - 1
        /\ daily_stats = WeekStats(1..(a - 1), {})
        /\ resp = Response("profile", Ann.id, a - 1, 0, WeekUsers,
                           WeekStats(1..(a - 1), {}), 0)
        /\ dbUsers = << >>
        /\ water_log = << >>
        /\ dbLastId = 0
        /\ dbDaily = << >>
        /\ now = 0
        /\ prior = NoPrior
        /\ inflight = NoneInFlight
        /\ shown = NoneShown
        /\ advanced = {}

AchievementState ==
    \E d \in AchievementDays :
        /\ api_state(Ann, d)
        /\ shown' = [shown EXCEPT ![Ann.id] = @ \cup resp'.achievements]
        /\ UNCHANGED <<prior, inflight, advanced>>

AchievementAdd ==
    \E d \in AchievementDays :
        /\ api_add_upto(Ahead - 1 + MaxExtraEntries,
                        Ann, client.ml, client.drink, d, "t1")
        /\ UNCHANGED <<prior, inflight, shown, advanced>>

AchievementUndo ==
    \E d \in AchievementDays :
      \E entry_id \in {lastId - 1, lastId} :
        /\ api_undo(Ann, entry_id, d)
        /\ UNCHANGED <<prior, inflight, shown, advanced>>

AchievementProfile ==
    \E d \in AchievementDays :
      \E g \in AchievementGoals :
        /\ api_profile(Ann, <<>>, <<>>, <<g>>, d)
        /\ UNCHANGED <<prior, inflight, shown, advanced>>

NextAchievements ==
    \/ AchievementState
    \/ AchievementAdd
    \/ AchievementUndo
    \/ AchievementProfile

SpecAchievements == InitAchievements /\ [][NextAchievements]_vars

----------------------------------------------------------------------------
(* SpecIncremental: src/db.py alone, one user.  Intakes of half the default  *)
(* goal and of the whole of it are added under either offset, any date the   *)
(* offsets can produce is refreshed, and the clock moves on by a day.        *)
(* advanced collects the dates for which update_streak raised                *)
(* current_streak.                                                           *)

IncrementalAmounts == {1000, 2000}

\* update_streak has just raised the current_streak of tg_id
Raised(tg_id) ==
    /\ tg_id \in DOMAIN dbUsers
    /\ dbUsers'[tg_id].current_streak > dbUsers[tg_id].current_streak

Advance(tg_id, local_date) ==
    advanced' = IF Raised(tg_id) THEN advanced \cup {<<tg_id, local_date>>}
                ELSE advanced

InitIncremental == Init /\ variant = "db"

IncrementalEnsureUser ==
    \E u \in DbUserIds :
        EnsureUser(u, 33) /\ UNCHANGED <<prior, inflight, shown, advanced>>

IncrementalAddWater ==
    \E u \in DbUserIds, a \in IncrementalAmounts, off \in DbOffsets :
        /\ add_water(u, a, off)
        /\ Advance(u, local_date_str_from_utc(now, off))
        /\ UNCHANGED <<prior, inflight, shown>>

IncrementalRefresh ==
    \E u \in DbUserIds, d \in DbDates :
        /\ refresh_daily_stats_for_date(u, d)
        /\ Advance(u, d)
        /\ UNCHANGED <<prior, inflight, shown>>

IncrementalTick == Tick /\ UNCHANGED <<prior, inflight, shown, advanced>>

NextIncremental ==
    \/ IncrementalEnsureUser
    \/ IncrementalAddWater
    \/ IncrementalRefresh
    \/ IncrementalTick

SpecIncremental == InitIncremental /\ [][NextIncremental]_vars

----------------------------------------------------------------------------
(* What the claims speak of, stated apart from the code's own operators *)

\* the sum of effective_ml over the user's ledger entries of a day
LedgerSum(u, d) ==
    LET ids == {i \in DOMAIN entries :
                    entries[i].telegram_id = u /\ entries[i].date = d}
    IN SumOver([i \in ids |-> entries[i].effective_ml], ids)

\* the number of consecutive calendar days d, d-1, ... with a met row
RECURSIVE CalendarRun(_, _)
CalendarRun(u, d) ==
    IF <<u, d>> \in DOMAIN daily_stats /\ daily_stats[<<u, d>>].met_goal = 1
    THEN 1 + CalendarRun(u, d - 1)
    ELSE 0

\* the longest run of met rows on consecutive calendar dates
MaxCalendarRun(u) ==
    LET runs == {CalendarRun(u, k[2]) :
                    k \in {x \in DOMAIN daily_stats : x[1] = u}}
    IN IF runs = {} THEN 0 ELSE CHOOSE r \in runs : \A q \in runs : q <= r

\* a request that ran recompute_streaks and answered 200
Recomputed == resp.status = 200 /\ resp.op \in {"state", "add", "undo"}

----------------------------------------------------------------------------
(* C1: in app.py, after any sequence of completed api_add, api_undo,        *)
(* api_profile and api_state requests, every daily_stats row has total_ml   *)
(* equal to the sum of effective_ml over the user's ledger entries of that  *)
(* day, and every (user, day) with a ledger entry has a daily_stats row.    *)
C1_DailyStatsMatchLedger ==
    variant = "app" =>
      /\ \A k \in DOMAIN daily_stats :
            daily_stats[k].total_ml = LedgerSum(k[1], k[2])
      /\ \A i \in DOMAIN entries :
            <<entries[i].telegram_id, entries[i].date>> \in DOMAIN daily_stats

\* an undo sent with a client date other than the day of an entry that
\* remains in the ledger
C1_Witness ==
    /\ resp.op = "undo" /\ resp.status = 200
    /\ \E i \in DOMAIN entries :
          /\ entries[i].telegram_id = resp.user
          /\ entries[i].date # resp.day
          /\ daily_stats[<<resp.user, entries[i].date>>].total_ml > 0

----------------------------------------------------------------------------
(* C2: for every amount 0 < a <= 5000 and every drink type, a successful    *)
(* add stores one entry whose effective amount is a times the multiplier    *)
(* (water 1.0, tea 0.8, coffee 0.6, unknown as water) rounded to the        *)
(* nearest integer, applied once; the day total reported after the add is   *)
(* the sum of the effective amounts of all the user's entries of that day.  *)
ClaimMultiplier(drink) ==
    CASE drink = "tea" -> 8
      [] drink = "coffee" -> 6
      [] OTHER -> 10

\* r is the integer nearest to raw * mult / 10
IsNearest(r, raw, mult) ==
    /\ 2 * (10 * r - raw * mult) <= 10
    /\ 2 * (raw * mult - 10 * r) <= 10

C2_AddStoresEffectiveAmount ==
    (resp.op = "add" /\ resp.status = 200) =>
      /\ 0 < client.ml /\ client.ml <= 5000
      /\ resp.entry_id = lastId
      /\ DOMAIN entries = 1..lastId
      /\ entries[lastId].raw_ml = client.ml
      /\ entries[lastId].telegram_id = resp.user
      /\ entries[lastId].date = resp.day
      /\ \A i \in DOMAIN entries :
            IsNearest(entries[i].effective_ml, entries[i].raw_ml,
                      ClaimMultiplier(client.drink))
      /\ resp.today_total = LedgerSum(resp.user, resp.day)

\* the largest amount as coffee, twice on one day
C2_Witness ==
    /\ resp.op = "add" /\ resp.status = 200
    /\ client = [ml |-> 5000, drink |-> "coffee"]
    /\ lastId = 2
    /\ resp.today_total = 6000

----------------------------------------------------------------------------
(* C3: over every sequence of add, undo, profile-change and state-query     *)
(* operations a user's stored best_streak never decreases from one state    *)
(* to the next (app.py recompute_streaks and db.py update_streak).          *)
C3_BestStreakNeverDecreases ==
    [][ /\ \A u \in DOMAIN users :
              /\ u \in DOMAIN users'
              /\ users'[u].best_streak >= users[u].best_streak
        /\ \A u \in DOMAIN dbUsers :
              /\ u \in DOMAIN dbUsers'
              /\ dbUsers'[u].best_streak >= dbUsers[u].best_streak ]_vars

\* a best streak that the history no longer shows: the met day was undone
C3_Witness ==
    \E u \in DOMAIN users :
        /\ users[u].best_streak >= 1
        /\ MaxCalendarRun(u) = 0
        /\ resp.op = "undo" /\ resp.status = 200 /\ resp.user = u

----------------------------------------------------------------------------
(* C4: in every reachable state of a user profile,                          *)
(* best_streak >= current_streak.                                           *)
C4_BestAtLeastCurrent ==
    /\ \A u \in DOMAIN users :
          users[u].best_streak >= users[u].current_streak
    /\ \A u \in DOMAIN dbUsers :
          dbUsers[u].best_streak >= dbUsers[u].current_streak

\* a current streak of two days
C4_Witness ==
    \E u \in DOMAIN users :
        users[u].current_streak = 2 /\ users[u].best_streak = 2

----------------------------------------------------------------------------
(* C5: after recompute_streaks(user, today) the stored current_streak is    *)
(* the number of consecutive calendar days ending at today that each have   *)
(* a met daily_stats row, whatever other rows (also rows dated after        *)
(* today) the user has.                                                     *)
C5_CurrentStreakIsRunEndingToday ==
    Recomputed =>
        users[resp.user].current_streak = CalendarRun(resp.user, resp.day)

----------------------------------------------------------------------------
(* C6: the best streak recompute_streaks computes from the daily_stats      *)
(* history is the longest run of met days on consecutive calendar dates: a  *)
(* row that is not met and a day with no row both reset the run.            *)
C6_BestStreakIsLongestCalendarRun ==
    Recomputed => resp.scan_best = MaxCalendarRun(resp.user)

----------------------------------------------------------------------------
(* C7: with daily stats for the seven days D-6..D whose met flags are       *)
(* [1,1,0,1,1,1,1] and no other rows, a streak update anchored at D yields  *)
(* current_streak = 4 (the claim said 3) and best_streak >= 2.              *)
WeekFlags == <<1, 1, 0, 1, 1, 1, 1>>

\* the user's rows are exactly those of D-6..D, with the flags above
WeekPattern(u, D) ==
    /\ {x \in DOMAIN daily_stats : x[1] = u}
          = {<<u, D - 7 + i>> : i \in 1..7}
    /\ \A i \in 1..7 : daily_stats[<<u, D - 7 + i>>].met_goal = WeekFlags[i]

\* a streak update anchored at D has just run on that history
WeekUpdated(u, D) ==
    /\ WeekPattern(u, D)
    /\ Recomputed /\ resp.user = u /\ resp.day = D

C7_WeekStreak ==
    \A u \in DOMAIN users : \A D \in Week :
        WeekUpdated(u, D) =>
            /\ users[u].current_streak = 4
            /\ users[u].best_streak >= 2
            /\ resp.current_streak = 4

C7_Witness == WeekUpdated(1, 7)

\* the claim as it was written: current_streak = 3
C7_AsWritten ==
    \A u \in DOMAIN users : \A D \in Week :
        WeekUpdated(u, D) =>
            /\ users[u].current_streak = 3
            /\ users[u].best_streak >= 2

----------------------------------------------------------------------------
(* C8: a day is counted as goal-met exactly when goal > 0 and total >=      *)
(* goal: every materialized daily stat satisfies this, and a day whose goal *)
(* is 0 is never treated as met by the aggregator (app.py met_goal) or by   *)
(* the streak update (db.py get_day_done).                                  *)
C8_MetIffPositiveGoalReached ==
    /\ \A k \in DOMAIN daily_stats :
          (daily_stats[k].met_goal = 1)
              <=> (daily_stats[k].goal_ml > 0
                   /\ daily_stats[k].total_ml >= daily_stats[k].goal_ml)
    /\ \A k \in DOMAIN dbDaily :
          get_day_done(dbDaily, k[1], k[2])
              <=> (dbDaily[k].goal_ml > 0
                   /\ dbDaily[k].total_ml >= dbDaily[k].goal_ml)

----------------------------------------------------------------------------
(* C9: an add whose amount is <= 0 or > 5000 is rejected with a validation  *)
(* error and changes nothing: no ledger entry, daily stat row, profile or   *)
(* streak field is created or modified (app.py api_add, db.py add_water).   *)
AmountOutOfRange(ml) == ml <= 0 \/ ml > 5000

C9_InvalidAddChangesNothing ==
    [][ /\ \A r \in AddRequests :
              (AmountOutOfRange(r.ml)
               /\ api_add(r.init, r.ml, r.drink, r.client_date, r.client_ts))
              => (resp'.status = 400 /\ UNCHANGED appVars)
        /\ \A u \in DbUserIds, a \in DbAmounts, off \in DbOffsets :
              (AmountOutOfRange(a) /\ add_water(u, a, off))
              => UNCHANGED <<dbUsers, water_log, dbLastId, dbDaily>> ]_vars

----------------------------------------------------------------------------
(* C10: an undo deletes an entry only when the entry exists and belongs to  *)
(* the requesting user.  For a positive id that does not exist or is owned  *)
(* by another user it answers 404 (a non-positive id: 400) and leaves the   *)
(* ledger, the daily stats and every user's weight, factor, goal and streak *)
(* counters unchanged; the one thing it may write is the requester's own    *)
(* profile row: ensure_user creates it on first contact, with zero goal and *)
(* counters, or refreshes its names.                                        *)
OwnEntry(r) ==
    /\ r.entry_id \in DOMAIN entries
    /\ entries[r.entry_id].telegram_id = r.init.id

\* an undo request of a resolved user for an entry that is not theirs
RefusedUndo(r) ==
    /\ r.init.valid /\ r.init.id # 0
    /\ ~OwnEntry(r)
    /\ api_undo(r.init, r.entry_id, r.client_date)

ProfileCore(p) ==
    <<p.weight_kg, p.factor_ml, p.goal_ml, p.best_streak, p.current_streak>>

C10_UndoOnlyOwnEntries ==
    [][ /\ \A i \in DOMAIN entries \ DOMAIN entries' :
              /\ resp'.op = "undo" /\ resp'.status = 200
              /\ resp'.entry_id = i
              /\ resp'.user = entries[i].telegram_id
        /\ \A r \in UndoRequests :
              RefusedUndo(r) =>
                /\ resp'.status = IF r.entry_id <= 0 THEN 400 ELSE 404
                /\ UNCHANGED <<entries, lastId, daily_stats>>
                /\ \A u \in DOMAIN users :
                      /\ u \in DOMAIN users'
                      /\ ProfileCore(users'[u]) = ProfileCore(users[u])
                /\ \A u \in DOMAIN users' \ DOMAIN users :
                      /\ u = r.init.id
                      /\ ProfileCore(users'[u]) = <<0, 33, 0, 0, 0>> ]_vars

\* a 404 while every entry id a request can name exists: the entry asked
\* for belongs to the other user
C10_Witness ==
    /\ resp.op = "undo" /\ resp.status = 404
    /\ DOMAIN entries = 1..MaxEntries
    /\ \E i, j \in DOMAIN entries :
          entries[i].telegram_id # entries[j].telegram_id

\* the claim as it was written, for the ids that pass validation: NotFound,
\* and all state (profiles included) unchanged
C10_AsWritten ==
    [][ \A r \in UndoRequests :
            (r.entry_id > 0 /\ RefusedUndo(r)) =>
                (resp'.status = 404 /\ UNCHANGED appVars) ]_vars

----------------------------------------------------------------------------
(* C11: after a successful undo the removed entry is gone and the total of  *)
(* every day of the user is the sum over the entries that remain; an add    *)
(* immediately followed by the undo of the returned entry id restores the   *)
(* day's total to its value before the add (0 when the day had no row).     *)
(* The met flag after the undo is that of the user's current goal against   *)
(* the restored total; it is the flag the row had before the add whenever   *)
(* that row carried the current goal, or when there was no row.             *)
UndoDone == resp.op = "undo" /\ resp.status = 200

\* the total and met flag a day reads as before the add: 0 when it has no row
PriorTotal == IF prior.row = << >> THEN 0 ELSE prior.row[1].total_ml
PriorMet == IF prior.row = << >> THEN 0 ELSE prior.row[1].met_goal

\* the add of prior has just been undone
RoundTripDone == UndoDone /\ prior.set

C11_UndoRestoresTotal ==
    /\ UndoDone =>
          /\ resp.entry_id \notin DOMAIN entries
          /\ \A k \in DOMAIN daily_stats :
                k[1] = resp.user =>
                    daily_stats[k].total_ml = LedgerSum(k[1], k[2])
    /\ RoundTripDone =>
          LET row == daily_stats[<<prior.user, prior.day>>]
              goal == users[prior.user].goal_ml
          IN /\ row.total_ml = PriorTotal
             /\ row.goal_ml = goal
             /\ row.met_goal = MetGoal(goal, PriorTotal)
             /\ (prior.row = << >> \/ prior.row[1].goal_ml = goal)
                    => row.met_goal = PriorMet

\* an add on a day that already had entries and a row, then its undo
C11_Witness ==
    /\ RoundTripDone
    /\ prior.row # << >>
    /\ PriorTotal > 0
    /\ prior.day # resp.day

\* the claim as it was written: total and met flag are both restored
C11_AsWritten ==
    RoundTripDone =>
        LET row == daily_stats[<<prior.user, prior.day>>]
        IN row.total_ml = PriorTotal /\ row.met_goal = PriorMet

----------------------------------------------------------------------------
(* C12: refresh is idempotent.  From every reachable state, refreshing the  *)
(* daily stat of (user, date) and updating the streaks twice in a row, with *)
(* no ledger or profile change in between, leaves the daily stat row        *)
(* (total, goal, met) and the user's streak counters as they were after the *)
(* first call: app.py upsert_daily_stats + recompute_streaks, db.py         *)
(* refresh_daily_stats_for_date.                                            *)

\* app.py: the tables after upsert_daily_stats and recompute_streaks
AppRefresh(us, ds, tg_id, day) ==
    LET ds1 == upsert_daily_stats(ds, entries, tg_id, day, us[tg_id].goal_ml)
    IN [ds |-> ds1, us |-> recompute_streaks(us, ds1, tg_id, day)]

\* db.py: the tables after refresh_daily_stats_for_date
DbRefreshed(us, dd, tg_id, local_date) ==
    LET dd1 == db_upsert(dd, us, water_log, tg_id, local_date, now)
    IN [dd |-> dd1, us |-> update_streak(us, dd1, tg_id, local_date)]

\* what the claim compares of a db.py row: total, goal, and whether it is done
DbRowView(dd, tg_id, local_date) ==
    <<dd[<<tg_id, local_date>>].total_ml, dd[<<tg_id, local_date>>].goal_ml,
      get_day_done(dd, tg_id, local_date)>>

C12_RefreshIdempotent ==
    /\ \A u \in DOMAIN users : \A d \in Days :
          LET once == AppRefresh(users, daily_stats, u, d)
              twice == AppRefresh(once.us, once.ds, u, d)
          IN /\ twice.ds = once.ds
             /\ twice.us = once.us
    /\ \A u \in DbUserIds : \A d \in DbDates :
          LET once == DbRefreshed(dbUsers, dbDaily, u, d)
              twice == DbRefreshed(once.us, once.dd, u, d)
          IN /\ DbRowView(twice.dd, u, d) = DbRowView(once.dd, u, d)
             /\ twice.us = once.us

\* states where the first refresh is not a no-op: in db.py it extends the
\* streak from 1 to 2
C12_Witness ==
    \E u \in DbUserIds : \E d \in DbDates :
        /\ u \in DOMAIN dbUsers
        /\ dbUsers[u].current_streak = 1
        /\ DbRefreshed(dbUsers, dbDaily, u, d).us[u].current_streak = 2

----------------------------------------------------------------------------
(* C13: end to end.  A newly created user with no weight has goal 0 and no  *)
(* day of theirs is met, whatever they add; once the weight is 70 the goal  *)
(* is 2310, a day refreshed under that goal is met exactly when its total   *)
(* has reached 2310, and an add that makes today met while yesterday is met *)
(* reports current_streak = yesterday's streak + 1.                         *)
EndToEndApp ==
    /\ \A u \in DOMAIN users :
          /\ users[u].weight_kg = 0 =>
                /\ users[u].goal_ml = 0
                /\ \A k \in DOMAIN daily_stats :
                      k[1] = u => daily_stats[k].met_goal = 0
          /\ users[u].weight_kg = 70 => users[u].goal_ml = 2310
    /\ \A k \in DOMAIN daily_stats :
          (daily_stats[k].met_goal = 1)
              <=> (daily_stats[k].goal_ml = 2310
                   /\ daily_stats[k].total_ml >= 2310)
    /\ (/\ resp.op = "add" /\ resp.status = 200 /\ resp.today_met = 1
        /\ CalendarRun(resp.user, resp.day - 1) > 0)
          => resp.current_streak = CalendarRun(resp.user, resp.day - 1) + 1

EndToEndDb ==
    \A u \in DOMAIN dbUsers :
        /\ dbUsers[u].weight_kg = << >> =>
              /\ dbUsers[u].goal_ml = 0
              /\ \A k \in DOMAIN dbDaily :
                    k[1] = u => ~get_day_done(dbDaily, k[1], k[2])
        /\ dbUsers[u].weight_kg = <<70>> =>
              \A k \in DOMAIN dbDaily :
                  (k[1] = u /\ dbDaily[k].goal_ml = 2310) =>
                      (get_day_done(dbDaily, k[1], k[2])
                          <=> dbDaily[k].total_ml >= 2310)

C13_EndToEnd == EndToEndApp /\ EndToEndDb

----------------------------------------------------------------------------
(* C14: the derived goal is weight times the factor clamped to [30,35]      *)
(* (weight 70, factor 33 gives 2310), for every factor value, and 0 when no *)
(* positive weight is set; every code path that derives the goal from the   *)
(* weight applies the clamp: app.py calc_goal and api_profile, db.py        *)
(* recompute_goal_from_formula.                                             *)
ClampedFactor(f) == IF f < 30 THEN 30 ELSE IF f > 35 THEN 35 ELSE f

DerivedGoal(w, f) == IF w > 0 THEN w * ClampedFactor(f) ELSE 0

\* calc_goal, over weights and factors inside and outside the ranges
CalcGoalClamps ==
    /\ calc_goal(70, 33) = 2310
    /\ \A w \in {-1, 0, 1, 70, 300} : \A f \in 28..37 :
          calc_goal(w, f) = DerivedGoal(w, f)

\* api_profile with a weight or a factor and no explicit goal: the goal
\* stored for a positive weight is the derived one
ProfileDerivesGoal ==
    \A r \in GoalProfileRequests :
        (/\ api_profile(r.init, r.weight_kg, r.factor_ml, r.goal_ml,
                        r.client_date)
         /\ (r.weight_kg # << >> \/ r.factor_ml # << >>)
         /\ users'[r.init.id].weight_kg > 0)
        => users'[r.init.id].goal_ml
              = DerivedGoal(users'[r.init.id].weight_kg,
                            IF r.factor_ml # << >> THEN r.factor_ml[1]
                            ELSE users'[r.init.id].factor_ml)

\* recompute_goal_from_formula for a user with a positive weight
RecomputeDerivesGoal ==
    \A u \in DOMAIN dbUsers :
        (/\ RecomputeGoal(u)
         /\ dbUsers[u].weight_kg # << >>
         /\ dbUsers[u].weight_kg[1] > 0)
        => dbUsers'[u].goal_ml
              = DerivedGoal(dbUsers[u].weight_kg[1], dbUsers[u].ml_per_kg)

AppDerivesGoal == [][CalcGoalClamps /\ ProfileDerivesGoal]_vars

C14_DerivedGoalClamped ==
    [][CalcGoalClamps /\ ProfileDerivesGoal /\ RecomputeDerivesGoal]_vars

----------------------------------------------------------------------------
(* C15: after any profile update the stored weight is unset or within       *)
(* [20,300], the stored factor is within [30,35], and an explicitly         *)
(* supplied goal is stored only if it lies within [500,10000]; a weight,    *)
(* factor or goal outside its bounds is reported as a validation error and  *)
(* leaves the profile and the daily stats unchanged.                        *)
WeightInBounds(w) == 20 <= w /\ w <= 300
FactorInBounds(f) == 30 <= f /\ f <= 35
GoalInBounds(g) == 500 <= g /\ g <= 10000

\* a payload field that is present and outside its bounds
FieldOutOfBounds(field, InBounds(_)) == field # << >> /\ ~InBounds(field[1])

RequestOutOfBounds(r) ==
    \/ FieldOutOfBounds(r.weight_kg, WeightInBounds)
    \/ FieldOutOfBounds(r.factor_ml, FactorInBounds)
    \/ FieldOutOfBounds(r.goal_ml, GoalInBounds)

\* app.py: what is stored after an api_profile step
StoredProfileInBounds ==
    \A r \in BoundsProfileRequests :
        api_profile(r.init, r.weight_kg, r.factor_ml, r.goal_ml, r.client_date)
        => /\ RequestOutOfBounds(r) =>
                 /\ resp'.status = 400
                 /\ UNCHANGED <<users, daily_stats>>
           /\ \A u \in DOMAIN users' :
                 /\ users'[u].weight_kg = 0 \/ WeightInBounds(users'[u].weight_kg)
                 /\ FactorInBounds(users'[u].factor_ml)
           /\ (r.goal_ml # << >> /\ resp'.status = 200
               /\ users'[r.init.id].goal_ml = r.goal_ml[1])
                 => GoalInBounds(r.goal_ml[1])

\* db.py: set_weight, set_factor and set_goal with a value outside the bounds
DbSettersValidate ==
    \A u \in DbUserIds :
        /\ \A w \in ProfileWeights :
              (SetWeight(u, w) /\ ~WeightInBounds(w)) => UNCHANGED dbUsers
        /\ \A k \in ProfileFactors :
              (SetFactor(u, k) /\ ~FactorInBounds(k)) => UNCHANGED dbUsers
        /\ \A g \in ProfileGoals :
              (SetGoal(u, g) /\ ~GoalInBounds(g)) => UNCHANGED dbUsers

C15_ProfileBoundsValidated == [][StoredProfileInBounds /\ DbSettersValidate]_vars

----------------------------------------------------------------------------
(* C16: read-your-writes.  After any sequence of adds and undos, a state    *)
(* snapshot for local date d reports a today total equal to the sum of the  *)
(* effective amounts of the user's ledger entries for d at that moment, and *)
(* its entry list is exactly those entries.  api_state writes no entry, so  *)
(* the list it returns is get_today_entries over the ledger it leaves.      *)
StateDone == resp.op = "state" /\ resp.status = 200

EntriesOf(u, d) ==
    {i \in DOMAIN entries : entries[i].telegram_id = u /\ entries[i].date = d}

C16_ReadYourWrites ==
    StateDone =>
        LET list == get_today_entries(entries, resp.user, resp.day)
            ids == EntriesOf(resp.user, resp.day)
        IN /\ resp.today_total = LedgerSum(resp.user, resp.day)
           /\ Len(list) = Cardinality(ids)
           /\ {list[n].id : n \in 1..Len(list)} = ids
           /\ \A n \in 1..Len(list) :
                 /\ list[n].effective_ml = entries[list[n].id].effective_ml
                 /\ list[n].raw_ml = entries[list[n].id].raw_ml
                 /\ list[n].drink_type = entries[list[n].id].drink_type

\* a snapshot after adds and an undo, with an entry left on the day asked for
C16_Witness ==
    /\ StateDone
    /\ lastId = MaxEntries
    /\ Cardinality(DOMAIN entries) < lastId
    /\ resp.today_total > 0
    /\ Len(get_today_entries(entries, resp.user, resp.day)) > 0

----------------------------------------------------------------------------
(* C17: the rolling window for (user, end date, n) returns exactly n        *)
(* entries for the n consecutive calendar dates ending at the end date, in  *)
(* ascending order; a date with a materialized row carries that row's total *)
(* and goal, and a date with no row carries total 0, the user's current     *)
(* goal and met = false (app.py get_last_n_days, db.py get_last_n_days).    *)
WindowEnds == 0..(MaxDay + 1)
WindowSizes == 1..MaxWeek

\* n entries, for the dates end-n+1 .. end in that order
WindowDates(w, end, n) ==
    /\ Len(w) = n
    /\ \A i \in 1..n : w[i].date = end - n + i

\* the entry of a date with no row has a met flag, and it is false
UnmetEntry(e) == "met_goal" \in DOMAIN e /\ e.met_goal = 0

WindowApp ==
    \A u \in DOMAIN users : \A end \in WindowEnds : \A n \in WindowSizes :
        LET goal == users[u].goal_ml
            w == get_last_n_days(daily_stats, u, end, n, goal)
        IN /\ WindowDates(w, end, n)
           /\ \A i \in 1..n :
                 LET k == <<u, w[i].date>>
                 IN IF k \in DOMAIN daily_stats
                    THEN /\ w[i].total_ml = daily_stats[k].total_ml
                         /\ w[i].goal_ml = daily_stats[k].goal_ml
                    ELSE /\ w[i].total_ml = 0
                         /\ w[i].goal_ml = goal
                         /\ UnmetEntry(w[i])

WindowDbDatesTotalsGoals ==
    \A u \in DbUserIds : \A end \in WindowEnds : \A n \in WindowSizes :
        LET w == db_get_last_n_days(dbDaily, dbUsers, u, end, n)
        IN /\ WindowDates(w, end, n)
           /\ \A i \in 1..n :
                 LET k == <<u, w[i].date>>
                 IN IF k \in DOMAIN dbDaily
                    THEN /\ w[i].total_ml = dbDaily[k].total_ml
                         /\ w[i].goal_ml = dbDaily[k].goal_ml
                    ELSE /\ w[i].total_ml = 0
                         /\ w[i].goal_ml = get_profile(dbUsers, u).goal_ml

WindowDbUnmet ==
    \A u \in DbUserIds : \A end \in WindowEnds : \A n \in WindowSizes :
        LET w == db_get_last_n_days(dbDaily, dbUsers, u, end, n)
        IN \A i \in 1..n :
              <<u, w[i].date>> \notin DOMAIN dbDaily => UnmetEntry(w[i])

C17_RollingWindow == WindowApp /\ WindowDbDatesTotalsGoals /\ WindowDbUnmet

----------------------------------------------------------------------------
(* C18: the percent-complete values of a state snapshot (today's pct and    *)
(* the weekly pct) always lie in [0,100]: they are 100 whenever             *)
(* total >= goal > 0 (total 3000, goal 2000 gives 100, not 150) and 0       *)
(* whenever the goal is 0.  api_state computes them from the row and the    *)
(* profile it has just written, so they are taken from the state it leaves. *)
PctOk(pct, total, goal) ==
    /\ 0 <= pct /\ pct <= 100
    /\ (goal > 0 /\ total >= goal) => pct = 100
    /\ goal = 0 => pct = 0

\* the snapshot's today pct
SnapshotPct ==
    pct_today(daily_stats[<<resp.user, resp.day>>].total_ml,
              users[resp.user].goal_ml)

\* the snapshot's last7
SnapshotLast7 ==
    get_last_n_days(daily_stats, resp.user, resp.day, 7,
                    users[resp.user].goal_ml)

WeekSum(last7, field) ==
    SumOver([i \in 1..Len(last7) |-> last7[i][field]], 1..Len(last7))

\* a week whose last day has the given total and goal, the other days 0 and 0
WeekOfOneDay(total, goal) ==
    [i \in 1..7 |-> [date |-> i, total_ml |-> IF i = 7 THEN total ELSE 0,
                     goal_ml |-> IF i = 7 THEN goal ELSE 0, met_goal |-> 0]]

C18_PercentClamped ==
    /\ pct_today(3000, 2000) = 100
    /\ week_pct(WeekOfOneDay(3000, 2000)) = 100
    /\ \A total \in 0..7 : \A goal \in 0..3 :
          /\ PctOk(pct_today(total, goal), total, goal)
          /\ PctOk(week_pct(WeekOfOneDay(total, goal)), total, goal)
    /\ StateDone =>
          /\ PctOk(SnapshotPct,
                   daily_stats[<<resp.user, resp.day>>].total_ml,
                   users[resp.user].goal_ml)
          /\ PctOk(week_pct(SnapshotLast7),
                   WeekSum(SnapshotLast7, "total_ml"),
                   WeekSum(SnapshotLast7, "goal_ml"))

\* a snapshot whose day's total exceeds the goal: 3 of 2 would be 150
C18_Witness ==
    /\ StateDone
    /\ users[resp.user].goal_ml > 0
    /\ resp.today_total > users[resp.user].goal_ml
    /\ SnapshotPct = 100
    /\ WeekSum(SnapshotLast7, "total_ml") > 0
    /\ week_pct(SnapshotLast7) < 100

----------------------------------------------------------------------------
(* C19: every calendar cell's ratio equals min(2, total/goal) when the      *)
(* cell's goal is positive and 0 when it is not, so it always lies in [0,2] *)
(* (total 5000, goal 2000 gives 2.0, not 2.5).                              *)

\* the fraction r is min(2, total/goal), or 0 for a goal that is not positive
RatioOk(r, total, goal) ==
    /\ r[2] > 0
    /\ 0 <= r[1] /\ r[1] <= 2 * r[2]
    /\ IF goal > 0
       THEN IF total >= 2 * goal THEN r[1] = 2 * r[2]
            ELSE r[1] * goal = total * r[2]
       ELSE r[1] = 0

\* the calendar of a snapshot: the month that starts on day 1, on a weekday
SnapshotCalendar(weekday) ==
    calendar_grid(daily_stats, resp.user, 1, weekday, 30,
                  users[resp.user].goal_ml)

C19_CalendarRatioCapped ==
    /\ ratio(5000, 2000) = <<2, 1>>
    /\ \A total \in 0..7 : \A goal \in 0..3 :
          RatioOk(ratio(total, goal), total, goal)
    /\ StateDone =>
          \A weekday \in {0, 6} :
              LET cal == SnapshotCalendar(weekday)
              IN /\ Len(cal) = 42
                 /\ \A i \in 1..42 :
                       RatioOk(cal[i].ratio, cal[i].total_ml, cal[i].goal_ml)

\* a snapshot whose calendar has a capped cell (more than twice its goal) and
\* an empty cell that takes the profile's positive goal
C19_Witness ==
    /\ StateDone
    /\ \E i, j \in 1..42 :
          LET cal == SnapshotCalendar(0)
          IN /\ cal[i].goal_ml > 0 /\ cal[i].total_ml > 2 * cal[i].goal_ml
             /\ cal[i].ratio = <<2, 1>>
             /\ <<resp.user, cal[j].date>> \notin DOMAIN daily_stats
             /\ cal[j].goal_ml > 0 /\ cal[j].ratio[1] = 0

----------------------------------------------------------------------------
(* C20: user isolation.  Any add, undo, profile change or state query       *)
(* issued by user A leaves every ledger entry, daily stat row and profile   *)
(* field (goal, weight, factor, streak counters) of every other user B      *)
(* unchanged.                                                               *)

\* the ledger entries, daily stat rows and profile of user b in the tables
DataOf(us, es, ds, b) ==
    [profile |-> IF b \in DOMAIN us THEN <<us[b]>> ELSE << >>,
     ledger |-> [i \in {x \in DOMAIN es : es[x].telegram_id = b} |-> es[i]],
     stats |-> [k \in {x \in DOMAIN ds : x[1] = b} |-> ds[k]]]

\* every user that the tables mention, before or after the step
KnownUsers ==
    DOMAIN users \cup DOMAIN users'
    \cup {entries[i].telegram_id : i \in DOMAIN entries}
    \cup {entries'[i].telegram_id : i \in DOMAIN entries'}
    \cup {k[1] : k \in DOMAIN daily_stats} \cup {k[1] : k \in DOMAIN daily_stats'}

\* the step leaves the data of every user other than a as it was
OthersUnchanged(a) ==
    \A b \in KnownUsers \ {a} :
        DataOf(users', entries', daily_stats', b)
            = DataOf(users, entries, daily_stats, b)

C20_UserIsolation ==
    [][ /\ \A r \in StateRequests :
              api_state(r.init, r.client_date) => OthersUnchanged(r.init.id)
        /\ \A r \in AddRequests :
              api_add(r.init, r.ml, r.drink, r.client_date, r.client_ts)
                  => OthersUnchanged(r.init.id)
        /\ \A r \in UndoRequests :
              api_undo(r.init, r.entry_id, r.client_date)
                  => OthersUnchanged(r.init.id)
        /\ \A r \in ProfileRequests :
              api_profile(r.init, r.weight_kg, r.factor_ml, r.goal_ml,
                          r.client_date) => OthersUnchanged(r.init.id)
      ]_vars

\* Ann has just undone an entry, with a streak of her own, while Bob has a
\* profile, a ledger entry and a daily stat row
C20_Witness ==
    /\ UndoDone /\ resp.user = Ann.id
    /\ users[Ann.id].best_streak > 0
    /\ Bob.id \in DOMAIN users
    /\ \E i \in DOMAIN entries : entries[i].telegram_id = Bob.id
    /\ \E k \in DOMAIN daily_stats : k[1] = Bob.id

----------------------------------------------------------------------------
(* C21: a streak update runs after every daily-stat refresh.  After every   *)
(* completed operation that upserts a daily stat row (add, undo, profile    *)
(* change, state query) the user's stored current_streak equals the run of  *)
(* met days ending at that operation's date and the stored best_streak is   *)
(* at least the longest run of met days in the history.                     *)

\* a completed request that upserted a daily_stats row
Refreshed ==
    resp.status = 200 /\ resp.op \in {"state", "add", "undo", "profile"}

\* the stored counters of u agree with the daily stats, seen from day d
StreaksMatchStats(u, d) ==
    /\ users[u].current_streak = CalendarRun(u, d)
    /\ users[u].best_streak >= MaxCalendarRun(u)

C21_StreakUpdateAfterEveryRefresh ==
    Refreshed => StreaksMatchStats(resp.user, resp.day)

----------------------------------------------------------------------------
(* C22: a positive current streak that ended on yesterday is not reset to   *)
(* zero merely because today's goal is not met yet: a state query or an add *)
(* on a new day whose total is still below the goal leaves current_streak   *)
(* at its previous value.                                                   *)

\* u's streak is positive and is the run of met days that ends on d - 1, and
\* d is a new day: it has no row yet and no row is dated after it
StreakEndedYesterday(u, d) ==
    /\ u \in DOMAIN users
    /\ users[u].current_streak > 0
    /\ users[u].current_streak = CalendarRun(u, d - 1)
    /\ \A k \in DOMAIN daily_stats : k[1] = u => k[2] < d

\* the step is a completed state query or add of u on d that leaves d unmet
MidDayRequest(u, d) ==
    /\ resp'.status = 200 /\ resp'.op \in {"state", "add"}
    /\ resp'.user = u /\ resp'.day = d
    /\ daily_stats'[<<u, d>>].met_goal = 0

\* db.py: the step refreshed the date d of u and d is not done after it
MidDayRefresh(u, d) ==
    /\ \/ refresh_daily_stats_for_date(u, d)
       \/ \E ml \in MidDayAmounts, off \in DbOffsets :
             /\ add_water(u, ml, off)
             /\ local_date_str_from_utc(now, off) = d
    /\ ~get_day_done(dbDaily', u, d)

C22_NoMidDayReset ==
    [][ /\ \A d \in Days :
              StreakEndedYesterday(Ann.id, d) /\ MidDayRequest(Ann.id, d)
                  => users'[Ann.id].current_streak
                         = users[Ann.id].current_streak
        /\ \A u \in DbUserIds, d \in DbDates :
              (u \in DOMAIN dbUsers /\ MidDayRefresh(u, d))
                  => dbUsers'[u].current_streak = dbUsers[u].current_streak
      ]_vars

----------------------------------------------------------------------------
(* C23: goal pinning.  Once a daily stat row for a past day has been        *)
(* written, a later change of the user's goal does not change that row's    *)
(* goal or met flag, whatever operations follow (profile change, add, state *)
(* query, undo of an entry of that past day); only the row of the day being *)
(* recorded takes the new goal.                                             *)

\* the row k keeps its goal, and its met flag too: when an undo lowers the
\* row's total the flag is that of the new total against the kept goal
RowPinned(k) ==
    /\ k \in DOMAIN daily_stats'
    /\ daily_stats'[k].goal_ml = daily_stats[k].goal_ml
    /\ daily_stats'[k].met_goal
          = MetGoal(daily_stats[k].goal_ml, daily_stats'[k].total_ml)

C23_GoalPinnedAtWrite ==
    [][ Refreshed' =>
          \A k \in DOMAIN daily_stats :
              (k[1] = resp'.user /\ k[2] < resp'.day) => RowPinned(k)
      ]_vars

----------------------------------------------------------------------------
(* C24: when two add (or add and undo) requests of the same user for the    *)
(* same local date run concurrently, interleaved at the granularity of the  *)
(* individually committed steps, then once both have completed the daily    *)
(* stat total equals the ledger sum for that date and the stored streak     *)
(* counters match the daily stats: no update is lost.                       *)

\* no request is in flight
AllCompleted == \A w \in Workers : inflight[w].pc = "idle"

\* the sum of amount_ml over the user's water_log rows of a date
WaterLogSum(u, d) ==
    LET ids == {i \in DOMAIN water_log :
                    water_log[i].tg_id = u /\ water_log[i].local_date = d}
    IN SumOver([i \in ids |-> water_log[i].amount_ml], ids)

C24_NoLostUpdate ==
    AllCompleted =>
        /\ \A k \in DOMAIN daily_stats :
              daily_stats[k].total_ml = LedgerSum(k[1], k[2])
        /\ \A u \in DOMAIN users : StreaksMatchStats(u, ConcurrentDay)
        /\ \A k \in DOMAIN dbDaily :
              /\ dbDaily[k].total_ml = WaterLogSum(k[1], k[2])
              /\ dbDaily[k].total_ml >= dbDaily[k].goal_ml
                    => dbUsers[k[1]].last_streak_date = <<k[2]>>

----------------------------------------------------------------------------
(* C25: no partial writes.  An add or undo either completes, leaving the    *)
(* daily stat equal to the ledger sum, or fails and leaves ledger, daily    *)
(* stats and profile exactly as before; a request aborted at any            *)
(* intermediate step never leaves a committed ledger change that the day's  *)
(* daily stat row does not reflect.                                         *)

\* every ledger entry's day has a daily stat row, and every row's total is
\* the ledger sum of its day
StatsReflectLedger ==
    /\ \A i \in DOMAIN entries :
          <<entries[i].telegram_id, entries[i].date>> \in DOMAIN daily_stats
    /\ \A k \in DOMAIN daily_stats :
          daily_stats[k].total_ml = LedgerSum(k[1], k[2])
    /\ \A i \in DOMAIN water_log :
          <<water_log[i].tg_id, water_log[i].local_date>> \in DOMAIN dbDaily
    /\ \A k \in DOMAIN dbDaily :
          dbDaily[k].total_ml = WaterLogSum(k[1], k[2])

C25_NoPartialWrites ==
    [][ /\ AllCompleted' => StatsReflectLedger'
        /\ \A r \in RefusedAdds :
              api_add(r.init, r.ml, "water", ConcurrentDay, "t1")
                  => UNCHANGED <<users, entries, daily_stats>>
        /\ \A i \in 1..MaxEntries :
              (UndoStart(1, i) /\ ~EntryFound(entries, i, Ann.id))
                  => UNCHANGED <<users, entries, daily_stats>>
      ]_vars

----------------------------------------------------------------------------
(* C26: in every reachable profile state in which a positive weight is      *)
(* present and the latest profile change did not supply an explicit goal,   *)
(* the stored goal equals weight times factor.                              *)

\* app.py: the profile of u after the step has a positive weight and a goal
\* other than weight times factor
GoalNotDerived(u) ==
    /\ users'[u].weight_kg > 0
    /\ users'[u].goal_ml # users'[u].weight_kg * users'[u].factor_ml

\* db.py: the same for the profile row of u
DbGoalNotDerived(u) ==
    /\ u \in DOMAIN dbUsers'
    /\ dbUsers'[u].weight_kg # << >>
    /\ dbUsers'[u].weight_kg[1] > 0
    /\ dbUsers'[u].goal_ml # dbUsers'[u].weight_kg[1] * dbUsers'[u].ml_per_kg

C26_GoalDerivedUnlessExplicit ==
    [][ /\ \A r \in BoundsProfileRequests :
              (/\ r.goal_ml = << >>
               /\ api_profile(r.init, r.weight_kg, r.factor_ml, r.goal_ml,
                              r.client_date))
                  => ~GoalNotDerived(r.init.id)
        /\ \A w \in ProfileWeights : SetWeight(1, w) => ~DbGoalNotDerived(1)
        /\ \A k \in ProfileFactors : SetFactor(1, k) => ~DbGoalNotDerived(1)
      ]_vars

----------------------------------------------------------------------------
(* C27: ledger entries are immutable.  Once an entry is created its owner,  *)
(* local date, timestamp, drink type, raw and effective amount never change *)
(* under any later operation, including later requests that report a        *)
(* different client date or timezone offset; the only thing that can happen *)
(* to an entry is its removal by an undo of its owner.                      *)
C27_EntriesImmutable ==
    [][ /\ \A i \in DOMAIN entries :
              IF i \in DOMAIN entries'
              THEN entries'[i] = entries[i]
              ELSE /\ resp'.op = "undo" /\ resp'.status = 200
                   /\ resp'.entry_id = i
                   /\ resp'.user = entries[i].telegram_id
        /\ \A i \in DOMAIN water_log :
              i \in DOMAIN water_log' /\ water_log'[i] = water_log[i]
      ]_vars

\* an entry of day 1 is still in the ledger after a later request of its
\* owner that reported day 2 and changed the tables
C27_Witness ==
    /\ resp.status = 200 /\ resp.op \in {"add", "undo"} /\ resp.day = 2
    /\ \E i \in DOMAIN entries :
          /\ i # resp.entry_id
          /\ entries[i].telegram_id = resp.user
          /\ entries[i].date = 1

----------------------------------------------------------------------------
(* C28: a request whose identity cannot be resolved is rejected before any  *)
(* core operation runs and changes no profile, ledger entry or daily stat.  *)
(* The identity cannot be resolved when the initData is missing, has no     *)
(* hash or names no user id, or when BOT_TOKEN is set and the hash or the   *)
(* age of the initData fails the verification.  The rejection is the        *)
(* authentication error 401, except that an add whose amount is out of      *)
(* range and an undo whose entry id is not positive are refused with the    *)
(* validation error 400 before the identity is looked at.                   *)

\* the initData i cannot be resolved to a user under the bot token t
Unresolvable(i, t) ==
    \/ ~i.present
    \/ i.hash = ""
    \/ i.id = 0
    \/ t # "" /\ (i.hash # "good" \/ i.expired)

\* the step answered with status and changed no table
RejectedWith(status) == resp'.status = status /\ UNCHANGED appVars

C28_UnresolvedIdentityRejected ==
    [][ \A i \in InitDatas, t \in BotTokens :
          Unresolvable(i, t) =>
            LET init == get_user_identity(i, t)
            IN /\ api_state(init, 1) => RejectedWith(401)
               /\ api_profile(init, << >>, << >>, <<2>>, 1) => RejectedWith(401)
               /\ \A ml \in AuthAmounts :
                     api_add(init, ml, "water", 1, "t1")
                         => RejectedWith(IF AmountOutOfRange(ml) THEN 400
                                         ELSE 401)
               /\ \A e \in 0..MaxEntries :
                     api_undo(init, e, 1)
                         => RejectedWith(IF e <= 0 THEN 400 ELSE 401)
      ]_vars

\* a request was turned away with 401 while the user's profile, ledger entry
\* and daily stat row were there to be changed
C28_Witness ==
    /\ resp.status = 401
    /\ 1 \in DOMAIN users
    /\ \E n \in DOMAIN entries : entries[n].telegram_id = 1
    /\ \E k \in DOMAIN daily_stats : k[1] = 1

\* the initData i is missing or invalid, or names no user id
Unresolved(i) ==
    \/ ~i.present
    \/ i.hash # "good"
    \/ i.expired
    \/ i.id = 0

\* the claim as first stated: always the authentication error, and invalid
\* initData whatever the configuration
C28_AsWritten ==
    [][ \A i \in InitDatas, t \in BotTokens :
          Unresolved(i) =>
            LET init == get_user_identity(i, t)
            IN /\ api_state(init, 1) => RejectedWith(401)
               /\ api_profile(init, << >>, << >>, <<2>>, 1) => RejectedWith(401)
               /\ \A ml \in AuthAmounts :
                     api_add(init, ml, "water", 1, "t1") => RejectedWith(401)
               /\ \A e \in 0..MaxEntries :
                     api_undo(init, e, 1) => RejectedWith(401)
      ]_vars

----------------------------------------------------------------------------
(* C29: a profile is created on a user's first contact with zero streak     *)
(* counters and is never deleted; ensure_user on an already existing user   *)
(* leaves that user's weight, factor, goal, current_streak and best_streak  *)
(* unchanged (in app.py only the displayed names may change).               *)

ContactNames == {"ann", "bob", "bobby"}

\* ensure_user on the users table us: a new user gets zero counters, an
\* existing one keeps everything but the names, nobody else is touched
EnsureUserKeeps(us) ==
    \A u \in DOMAIN us \cup {Ann.id, Bob.id} : \A names \in ContactNames :
        LET us1 == ensure_user(us, u, names)
        IN /\ DOMAIN us1 = DOMAIN us \cup {u}
           /\ \A v \in DOMAIN us \ {u} : us1[v] = us[v]
           /\ IF u \in DOMAIN us
              THEN ProfileCore(us1[u]) = ProfileCore(us[u])
              ELSE us1[u].current_streak = 0 /\ us1[u].best_streak = 0

\* Database.ensure_user on the users table us
DbEnsureUserKeeps(us) ==
    \A u \in DOMAIN us \cup DbUserIds : \A k \in {30, 33, 35} :
        LET us1 == db_ensure_user(us, u, k)
        IN /\ DOMAIN us1 = DOMAIN us \cup {u}
           /\ \A v \in DOMAIN us : us1[v] = us[v]
           /\ u \notin DOMAIN us
                 => us1[u].current_streak = 0 /\ us1[u].best_streak = 0

\* the step is a request of a resolved user that got past the payload checks
Contact(u) ==
    \/ \E r \in StateRequests :
          /\ r.init.id = u /\ Authenticated(r.init)
          /\ api_state(r.init, r.client_date)
    \/ \E r \in AddRequests :
          /\ r.init.id = u /\ Authenticated(r.init) /\ ~AmountOutOfRange(r.ml)
          /\ api_add(r.init, r.ml, r.drink, r.client_date, r.client_ts)
    \/ \E r \in UndoRequests :
          /\ r.init.id = u /\ Authenticated(r.init) /\ r.entry_id > 0
          /\ api_undo(r.init, r.entry_id, r.client_date)
    \/ \E r \in ProfileRequests :
          /\ r.init.id = u /\ Authenticated(r.init)
          /\ api_profile(r.init, r.weight_kg, r.factor_ml, r.goal_ml,
                         r.client_date)

C29_ProfileLifecycle ==
    [][ /\ DOMAIN users \subseteq DOMAIN users'
        /\ DOMAIN dbUsers \subseteq DOMAIN dbUsers'
        /\ \A u \in {Ann.id, Bob.id} : Contact(u) => u \in DOMAIN users'
        /\ \A u \in DOMAIN users' \ DOMAIN users :
              users'[u].current_streak = 0 /\ users'[u].best_streak = 0
        /\ \A u \in DOMAIN dbUsers' \ DOMAIN dbUsers :
              dbUsers'[u].current_streak = 0 /\ dbUsers'[u].best_streak = 0
        /\ EnsureUserKeeps(users')
        /\ DbEnsureUserKeeps(dbUsers')
      ]_vars

\* Bob was renamed by a later request, and Ann, who holds a goal and a streak,
\* has been looked up again by a request that was then refused
C29_Witness ==
    /\ Bob.id \in DOMAIN users /\ users[Bob.id].names = "bobby"
    /\ Ann.id \in DOMAIN users
    /\ users[Ann.id].goal_ml > 0 /\ users[Ann.id].best_streak > 0

----------------------------------------------------------------------------
(* C30: in a state snapshot the achievement with threshold t in {7, 14, 30} *)
(* is unlocked exactly when best_streak >= t, and an achievement that one   *)
(* snapshot of a user showed unlocked is unlocked in every later snapshot   *)
(* of that user, whatever adds, undos and profile changes happened in       *)
(* between.                                                                 *)
StateSnapshot == resp.op = "state" /\ resp.status = 200

C30_AchievementsByBestStreak ==
    StateSnapshot =>
        /\ \A t \in {7, 14, 30} :
              t \in resp.achievements
                  <=> users[resp.user].best_streak >= t
        /\ shown[resp.user] \subseteq resp.achievements

\* a snapshot shows an achievement that the history no longer earns: the
\* entry of the day that reached the threshold has been undone
C30_Witness ==
    /\ StateSnapshot
    /\ \E t \in {7, 14, 30} :
          /\ t \in resp.achievements
          /\ ScanBest(daily_stats, resp.user) < t
          /\ users[resp.user].current_streak < t

----------------------------------------------------------------------------
(* C31: db.py update_streak.  A refresh for a date that is not met changes  *)
(* no streak field; for a met date equal to last_streak_date it changes     *)
(* nothing; for a met date one day after last_streak_date it raises         *)
(* current_streak by exactly 1; for any other met date, or when there is no *)
(* last date, it sets current_streak to 1; in the three updating cases      *)
(* best_streak becomes max(best_streak, current_streak) and                 *)
(* last_streak_date becomes that date.  Hence the streak advances at most   *)
(* once per local date, however many intakes are added on it.               *)
StreakFields(p) == <<p.current_streak, p.best_streak, p.last_streak_date>>

\* how a refresh of local_date took the profile of tg_id from dbUsers to
\* dbUsers', the day's row being the one the refresh has written
StreakCases(tg_id, local_date) ==
    LET old == dbUsers[tg_id]
        new == dbUsers'[tg_id]
        last == old.last_streak_date
        met == get_day_done(dbDaily', tg_id, local_date)
    IN /\ ~met => StreakFields(new) = StreakFields(old)
       /\ (met /\ last = <<local_date>>) => new = old
       /\ (met /\ last = <<local_date - 1>>) =>
             new.current_streak = old.current_streak + 1
       /\ (met /\ last \notin {<<local_date>>, <<local_date - 1>>}) =>
             new.current_streak = 1
       /\ (met /\ last # <<local_date>>) =>
             /\ new.best_streak = Max(old.best_streak, new.current_streak)
             /\ new.last_streak_date = <<local_date>>

\* every refresh of a profile's date, by itself or at the end of add_water,
\* follows the cases
RefreshFollowsCases ==
    \A u \in DbUserIds \cap DOMAIN dbUsers :
        /\ \A d \in DbDates :
              refresh_daily_stats_for_date(u, d) => StreakCases(u, d)
        /\ \A a \in IncrementalAmounts, off \in DbOffsets :
              add_water(u, a, off) =>
                  StreakCases(u, local_date_str_from_utc(now, off))

\* a date whose refresh has raised current_streak is not raised for again
OncePerDate ==
    \A u \in DbUserIds : Raised(u) =>
        <<u, dbUsers'[u].last_streak_date[1]>> \notin advanced

C31_IncrementalStreakCases ==
    [][RefreshFollowsCases /\ OncePerDate]_vars

----------------------------------------------------------------------------
(* C32: db.py, over any sequence of add_water and                           *)
(* refresh_daily_stats_for_date calls whose local dates vary with the       *)
(* client's offset: last_streak_date never moves to an earlier date, and a  *)
(* refresh for a date earlier than last_streak_date does not lower          *)
(* current_streak.                                                          *)
StreakDateNeverEarlier ==
    \A u \in DbUserIds \cap DOMAIN dbUsers :
        dbUsers[u].last_streak_date # <<>> =>
            /\ dbUsers'[u].last_streak_date # <<>>
            /\ dbUsers'[u].last_streak_date[1] >= dbUsers[u].last_streak_date[1]

\* the refresh of local_date was one of a date before last_streak_date
Backdated(tg_id, local_date) ==
    /\ dbUsers[tg_id].last_streak_date # <<>>
    /\ local_date < dbUsers[tg_id].last_streak_date[1]

EarlierDateKeepsStreak ==
    \A u \in DbUserIds \cap DOMAIN dbUsers :
        /\ \A d \in DbDates :
              (refresh_daily_stats_for_date(u, d) /\ Backdated(u, d)) =>
                  dbUsers'[u].current_streak >= dbUsers[u].current_streak
        /\ \A a \in IncrementalAmounts, off \in DbOffsets :
              (/\ add_water(u, a, off)
               /\ Backdated(u, local_date_str_from_utc(now, off))) =>
                  dbUsers'[u].current_streak >= dbUsers[u].current_streak

C32_StreakDateMonotone ==
    [][StreakDateNeverEarlier /\ EarlierDateKeepsStreak]_vars

====
